---- MODULE Spec2Model ----
(***************************************************************************)
(* A model of pyconquest (src/pyconquest/pyconquest.py): the sqlite index  *)
(* over a DICOM file tree.  The four hierarchy tables are sequences of     *)
(* rows (sqlite keeps insertion order and allows duplicate rows), the      *)
(* last-seen memo is the three __prev_* attributes of the instance, and    *)
(* the data directory is the set of file references that exist on disk.    *)
(***************************************************************************)
EXTENDS Integers, Sequences, FiniteSets, TLC

VARIABLES
    images,          \* rows of table DICOMimages
    series,          \* rows of table DICOMseries
    studies,         \* rows of table DICOMstudies
    patients,        \* rows of table DICOMpatients
    prev_seriesuid,  \* self.__prev_seriesuid
    prev_studyuid,   \* self.__prev_studyuid
    prev_patientid,  \* self.__prev_patientid
    files,           \* file references present under data_directory
    clock,           \* time.time(), advanced by every write_tags call
    result,          \* what the last public call returned ("raised": it raised)
    last,            \* the last public call and its arguments
    run,             \* whether every call so far was write_tags on one identity
    exclude_filter,  \* self.exclude_filter
    include_filter,  \* self.include_filter
    roi_filter_flags,\* self.roi_filter_flags
    roinames,        \* the argument of the last filter_roinames call
    returnlist,      \* what the last filter_roinames call returned
    configured,      \* set_roi_filter was called on the instance
    setargs,         \* the exclude and include arguments of that call
    fpc,             \* filter_roinames: "idle", or "filtered" / "raised" after it
    cls_memo,        \* the class attributes pyconquest.__prev_* (lines 34-36)
    c2_alive,        \* a second instance c2 on the same database was constructed
    memo2,           \* the __prev_* entries of c2's own attributes
    class_db_design, \* the class attribute pyconquest.__db_design (line 37)
    sql_instances,   \* per instance constructed: its schema source and the load
    db_columns,      \* the tables of the database file and their columns
    tabledict,       \* the last __create_tabledict call and its result
    returndict,      \* the last __extra_dicom_tags call and its result
    newtable,        \* the table insert_dict is called on
    procs            \* per instance writing by steps: its position and locals

storevars == <<images, series, studies, patients, prev_seriesuid, prev_studyuid,
               prev_patientid, files, clock, result, last, run>>

filtervars == <<exclude_filter, include_filter, roi_filter_flags, roinames,
                returnlist, configured, setargs, fpc>>

instvars == <<cls_memo, c2_alive, memo2>>

schemavars == <<class_db_design, sql_instances>>

extvars == <<db_columns, tabledict, returndict, newtable, procs>>

vars == <<storevars, filtervars, instvars, schemavars, extvars>>

\* ------------------------------------------------------------------ bounds

\* write_tags calls in one behaviour (each call reads the clock once).
MaxCalls == 3

\* Patterns in an exclude or include list given to set_roi_filter.
MaxPatterns == 2

\* Names in the list given to filter_roinames.
MaxNames == 2

\* Lines of a schema source file.
MaxLines == 3

\* Instances constructed in one process, each reading a schema source.
MaxInstances == 2

\* Column lines in the level block of a schema source tables are built from.
MaxColumns == 2

\* ------------------------------------------------------- records and inputs

\* The decoded records (pydicom datasets) the calls are given: a well-formed
\* hierarchy, each image in one series, each series in one study, each study
\* in one patient.  Patient p1 has two studies, study t1 has two series and
\* series s1 has two images.
Datasets ==
    { [sop |-> "i1", series |-> "s1", study |-> "t1", patient |-> "p1"],
      [sop |-> "i2", series |-> "s1", study |-> "t1", patient |-> "p1"],
      [sop |-> "i3", series |-> "s2", study |-> "t1", patient |-> "p1"],
      [sop |-> "i4", series |-> "s3", study |-> "t2", patient |-> "p1"],
      [sop |-> "i5", series |-> "s4", study |-> "t3", patient |-> "p2"] }

\* What stands for an attribute the record does not carry: ds[group, element]
\* raises KeyError on it.
NoTag == "<no tag>"

\* A record with an image identity, a study and a patient identity and no
\* SeriesInstanceUID (0020,000e).
IncompleteDatasets ==
    { [sop |-> "i6", series |-> NoTag, study |-> "t1", patient |-> "p1"] }

AllDatasets == Datasets \cup IncompleteDatasets

\* Records of any identities: a series identity under two studies, a study
\* identity under two patients, an image identity under two series.
ArbitraryDatasets ==
    [sop : {"i1", "i2"}, series : {"s1", "s2"}, study : {"t1", "t2"},
     patient : {"p1", "p2"}]

SeriesUIDs == {d.series : d \in Datasets}
StudyUIDs == {d.study : d \in Datasets}
PatientIDs == {d.patient : d \in Datasets}

\* A file reference relative to data_directory: "<directory>/<basename>".
FileRef(dir, base) == <<dir, base>>

\* The file each record was read from.  Images i1 and i3 (series s1 and s2)
\* and images i2 and i4 (series s1 and s3) carry the same reference, as after
\* two store_dicom_file calls on source files of one base name.
FileOf(ds) ==
    FileRef(ds.patient, IF ds.sop \in {"i1", "i3", "i5"} THEN "a.dcm" ELSE "b.dcm")

\* The file tree the index is built over.
AllFiles == {FileOf(ds) : ds \in AllDatasets}

\* ------------------------------------------------------------ table helpers

\* value.strip(): the identities of Datasets carry no surrounding blanks.
Strip(value) == value

\* Faulty variant: the existence query finds no row.
check_if_table_contains_never(table, col, value) == FALSE

\* __check_if_table_contains: SELECT * FROM table WHERE col = "value.strip()".
\* sqlite column names are case-insensitive: 'Studyinsta' is column StudyInsta.
check_if_table_contains(table, col, value) ==
    \E k \in 1..Len(table) : table[k][col] = Strip(value)

\* create_insertquery + execute_db_query: INSERT INTO table VALUES row.
insert_row(table, row) == Append(table, row)

\* Faulty variant: the memo pre-check inverted.
memo_differs_inverted(uid, prev) == uid = prev

\* The memo pre-check "not (uid == self.__prev_...)".
memo_differs(uid, prev) == ~(uid = prev)

\* ---------------------------------------------------------------- write_tags

\* The state write_tags reads and writes, as one record.
StoreState ==
    [images |-> images, series |-> series, studies |-> studies,
     patients |-> patients, prev_seriesuid |-> prev_seriesuid,
     prev_studyuid |-> prev_studyuid, prev_patientid |-> prev_patientid]

\* __create_tabledict (lines 283-291): the value of the attribute, '' when the
\* lookup raises.
tabledict_value(ds, attr) == IF ds[attr] = NoTag THEN "" ELSE ds[attr]

\* __create_tabledict('DICOMimages') + ObjectFile + __extra_dicom_tags.
imagedict(ds, filename, now) ==
    [SOPInstanc |-> ds.sop, SeriesInst |-> tabledict_value(ds, "series"),
     ImagePat |-> ds.patient,
     ObjectFile |-> filename, DatabaseTimeStamp |-> now]

seriesdict(ds) ==
    [SeriesInst |-> ds.series, StudyInsta |-> ds.study, SeriesPat |-> ds.patient]

studydict(ds) == [StudyInsta |-> ds.study, PatientID |-> ds.patient]

patientdict(ds) == [PatientID |-> ds.patient]

\* Faulty variant: the update without its WHERE clause.
update_timestamp_everywhere(table, sop, now) ==
    [k \in 1..Len(table) |-> [table[k] EXCEPT !.DatabaseTimeStamp = now]]

\* update DICOMimages set DatabaseTimeStamp=now where SOPInstanc=sop.
update_timestamp(table, sop, now) ==
    [k \in 1..Len(table) |->
        IF table[k].SOPInstanc = sop
        THEN [table[k] EXCEPT !.DatabaseTimeStamp = now]
        ELSE table[k]]

\* Faulty variant: no existence query, whatever check_existing is.
image_level_never_checks(st, ds, filename, check_existing, now) ==
    [row_exists |-> FALSE,
     images |-> insert_row(st.images, imagedict(ds, filename, now))]

\* Faulty variant: the existence query runs whatever check_existing is.
image_level_always_checks(st, ds, filename, check_existing, now) ==
    LET row_exists == check_if_table_contains(st.images, "SOPInstanc", ds.sop)
    IN  [row_exists |-> row_exists,
         images |-> IF ~row_exists
                    THEN insert_row(st.images, imagedict(ds, filename, now))
                    ELSE update_timestamp(st.images, ds.sop, now)]

\* Lines 304-321: the image level.
image_level(st, ds, filename, check_existing, now) ==
    LET row_exists == IF check_existing
                      THEN check_if_table_contains(st.images, "SOPInstanc", ds.sop)
                      ELSE FALSE
    IN  [row_exists |-> row_exists,
         images |-> IF ~row_exists
                    THEN insert_row(st.images, imagedict(ds, filename, now))
                    ELSE update_timestamp(st.images, ds.sop, now)]

\* Lines 344-350: the patient level, reached only when the study memo differs.
patient_level(st, ds) ==
    IF memo_differs(ds.patient, st.prev_patientid)
    THEN [st EXCEPT
            !.prev_patientid = ds.patient,
            !.patients = IF ~check_if_table_contains(st.patients, "PatientID", ds.patient)
                         THEN insert_row(st.patients, patientdict(ds))
                         ELSE st.patients]
    ELSE st

\* Lines 336-350: the study level, reached only when the series memo differs.
study_level(st, ds) ==
    IF memo_differs(ds.study, st.prev_studyuid)
    THEN patient_level(
           [st EXCEPT
              !.prev_studyuid = ds.study,
              !.studies = IF ~check_if_table_contains(st.studies, "StudyInsta", ds.study)
                          THEN insert_row(st.studies, studydict(ds))
                          ELSE st.studies],
           ds)
    ELSE st

\* write_tags: the store after the call, and whether the call raised.  The
\* image level is committed before line 323 reads the series identity: on a
\* record without that attribute the lookup raises KeyError there.  When
\* the image row existed (imagedict was never bound) and the series row has
\* to be built, line 329 reads the unbound local imagedict: the call raises
\* after the timestamp update and after the series memo was set.
write_tags(st, ds, filename, check_existing, now) ==
    LET img == image_level(st, ds, filename, check_existing, now)
        st1 == [st EXCEPT !.images = img.images]
    IN  IF ds.series = NoTag
        THEN [st |-> st1, raised |-> TRUE]
        ELSE IF ~memo_differs(ds.series, st.prev_seriesuid)
        THEN [st |-> st1, raised |-> FALSE]
        ELSE
          LET st2 == [st1 EXCEPT !.prev_seriesuid = ds.series]
          IN  IF ~check_if_table_contains(st.series, "SeriesInst", ds.series)
              THEN IF img.row_exists
                   THEN [st |-> st2, raised |-> TRUE]
                   ELSE [st |-> study_level(
                                  [st2 EXCEPT !.series =
                                      insert_row(st.series, seriesdict(ds))], ds),
                         raised |-> FALSE]
              ELSE [st |-> study_level(st2, ds), raised |-> FALSE]

\* The history of the behaviour: "none" before the first call, "same" while
\* every call was a write_tags of one series/study/patient identity.
RunAfterWrite(ds) ==
    IF ds \notin Datasets
    THEN [kind |-> "mixed", series |-> "", study |-> "", patient |-> ""]
    ELSE IF run.kind = "none"
       \/ (run.kind = "same" /\ run.series = ds.series /\ run.study = ds.study
           /\ run.patient = ds.patient)
    THEN [kind |-> "same", series |-> ds.series, study |-> ds.study,
          patient |-> ds.patient]
    ELSE [kind |-> "mixed", series |-> "", study |-> "", patient |-> ""]

RunMixed == [kind |-> "mixed", series |-> "", study |-> "", patient |-> ""]

\* query: the outcome of the table-existence query of a connect_db; uids,
\* where: the list and the query a delete_series was called with.
\* on: the instance called; found: the rows the call's query returned; had_study, had_patient: whether
\* the study and patient rows a delete_series looked at were in the store.
NoCall == [op |-> "none", on |-> "c", sop |-> "", series |-> "", study |-> "",
           patient |-> "", mrn |-> "",
           check_existing |-> FALSE, delete_files |-> FALSE, found |-> 0,
           had_study |-> FALSE, had_patient |-> FALSE, query |-> "",
           uids |-> <<>>, where |-> [col |-> "", val |-> ""]]

SetStore(st) ==
    /\ images' = st.images
    /\ series' = st.series
    /\ studies' = st.studies
    /\ patients' = st.patients
    /\ prev_seriesuid' = st.prev_seriesuid
    /\ prev_studyuid' = st.prev_studyuid
    /\ prev_patientid' = st.prev_patientid

\* A direct call c.write_tags(ds, filename, check_existing).
WriteTags(ds, filename, check_existing) ==
    /\ clock < MaxCalls
    /\ LET out == write_tags(StoreState, ds, filename, check_existing, clock + 1)
       IN  /\ SetStore(out.st)
           /\ result' = IF out.raised THEN "raised" ELSE "None"
    /\ clock' = clock + 1
    /\ last' = [NoCall EXCEPT !.op = "write_tags", !.sop = ds.sop,
                  !.series = ds.series, !.study = ds.study,
                  !.patient = ds.patient, !.check_existing = check_existing]
    /\ run' = RunAfterWrite(ds)
    /\ UNCHANGED files
    /\ UNCHANGED <<filtervars, instvars, schemavars, extvars>>

\* -------------------------------------------------------------- delete_series

\* Series identities delete_series is called with: the stored ones and one
\* that no record carries.
DeleteUIDs == SeriesUIDs \cup {"s0"}

\* Faulty variant: the query without its WHERE clause.
return_list_unfiltered(st, seriesuid) ==
    { ij \in (1..Len(st.images)) \X (1..Len(st.series)) :
        st.series[ij[2]].SeriesInst = st.images[ij[1]].SeriesInst }

\* file_query (lines 560-562): the image rows of the series joined with the
\* series rows of the same SeriesInst, as <<image index, series index>>.
return_list(st, seriesuid) ==
    { ij \in (1..Len(st.images)) \X (1..Len(st.series)) :
        /\ st.images[ij[1]].SeriesInst = seriesuid
        /\ st.series[ij[2]].SeriesInst = st.images[ij[1]].SeriesInst }

\* The image rows the loop of lines 569-584 leaves: each pass deletes
\* "where ObjectFile = row['ObjectFile']".
delete_image_rows(table, objectfiles) ==
    LET Keep(row) == row.ObjectFile \notin objectfiles
    IN  SelectSeq(table, Keep)

\* delete from <table> where <col> = value.
delete_where(table, col, value) ==
    LET Keep(row) == row[col] # value
    IN  SelectSeq(table, Keep)

count_where(table, col, value) ==
    LET Hit(row) == row[col] = value
    IN  Len(SelectSeq(table, Hit))

\* Lines 587-604: the series row, then the study row if no series of the
\* study remains, then the patient row if no study of the patient remains.
\* studyuid and patientid are those of the last row the loop visited.
cascade(st, seriesuid, studyuid, patientid) ==
    LET series1 == delete_where(st.series, "SeriesInst", seriesuid)
        studies1 == IF count_where(series1, "StudyInsta", studyuid) = 0
                    THEN delete_where(st.studies, "StudyInsta", studyuid)
                    ELSE st.studies
        patients1 == IF count_where(studies1, "PatientID", patientid) = 0
                     THEN delete_where(st.patients, "PatientID", patientid)
                     ELSE st.patients
    IN  [st EXCEPT !.series = series1, !.studies = studies1,
                   !.patients = patients1]

\* Faulty variant: the series row is deleted before the images are looked up.
delete_single_unguarded(st, seriesuid, lastrow) ==
    LET rl == return_list(st, seriesuid)
        objectfiles == {st.images[ij[1]].ObjectFile : ij \in rl}
    IN  IF rl = {}
        THEN [st EXCEPT !.series = delete_where(st.series, "SeriesInst", seriesuid)]
        ELSE cascade([st EXCEPT !.images = delete_image_rows(st.images, objectfiles)],
                     seriesuid,
                     st.series[lastrow[2]].StudyInsta,
                     st.images[lastrow[1]].ImagePat)

\* delete_series of a single seriesuid (lines 558-604).  lastrow is the row
\* of return_list the loop visits last (sqlite fixes no order).
delete_single(st, seriesuid, lastrow) ==
    LET rl == return_list(st, seriesuid)
        objectfiles == {st.images[ij[1]].ObjectFile : ij \in rl}
    IN  IF rl = {}   \* len(return_list) == 0: return
        THEN st
        ELSE cascade([st EXCEPT !.images = delete_image_rows(st.images, objectfiles)],
                     seriesuid,
                     st.series[lastrow[2]].StudyInsta,
                     st.images[lastrow[1]].ImagePat)

\* The files the loop removes: os.remove of every existing ObjectFile of the
\* rows when delete_files is set.
removed_files(st, seriesuid, delete_files) ==
    IF delete_files
    THEN {st.images[ij[1]].ObjectFile : ij \in return_list(st, seriesuid)}
    ELSE {}

\* c.delete_series(seriesuid=<one uid>, delete_files=...).
DeleteSeries(seriesuid, delete_files) ==
    LET rl == return_list(StoreState, seriesuid)
    IN  /\ \E lastrow \in (IF rl = {} THEN {<<0, 0>>} ELSE rl) :
               /\ SetStore(delete_single(StoreState, seriesuid, lastrow))
               /\ last' = [NoCall EXCEPT
                             !.op = "delete_series", !.series = seriesuid,
                             !.delete_files = delete_files,
                             !.found = Cardinality(rl),
                             !.had_study = rl # {} /\ count_where(studies,
                                 "StudyInsta", series[lastrow[2]].StudyInsta) > 0,
                             !.had_patient = rl # {} /\ count_where(patients,
                                 "PatientID", images[lastrow[1]].ImagePat) > 0]
        /\ files' = files \ removed_files(StoreState, seriesuid, delete_files)
        /\ result' = "None"
        /\ run' = RunMixed
        /\ UNCHANGED clock
        /\ UNCHANGED <<filtervars, instvars, schemavars, extvars>>

\* Faulty variant: the delete on DICOMstudies is missing.
delete_mrn_three_tables(st, mrn) ==
    [st EXCEPT !.images = delete_where(st.images, "ImagePat", mrn),
               !.series = delete_where(st.series, "SeriesPat", mrn),
               !.patients = delete_where(st.patients, "PatientID", mrn)]

\* Lines 533-544: the patient-level form, which refuses delete_files.
delete_mrn(st, mrn) ==
    [st EXCEPT !.images = delete_where(st.images, "ImagePat", mrn),
               !.series = delete_where(st.series, "SeriesPat", mrn),
               !.studies = delete_where(st.studies, "PatientID", mrn),
               !.patients = delete_where(st.patients, "PatientID", mrn)]

\* Faulty variant: the conflicting-options check is missing.
mrn_never_rejected(delete_files) == FALSE

\* Line 534: "if delete_files == True".
mrn_rejected(delete_files) == delete_files = TRUE

\* c.delete_series(mrn=<patient id>, delete_files=...).
DeleteSeriesMrn(mrn, delete_files) ==
    /\ IF mrn_rejected(delete_files)
       THEN /\ UNCHANGED <<images, series, studies, patients, prev_seriesuid,
                           prev_studyuid, prev_patientid>>
            /\ result' = "-1"
       ELSE /\ SetStore(delete_mrn(StoreState, mrn))
            /\ result' = "1"
    /\ last' = [NoCall EXCEPT !.op = "delete_mrn", !.mrn = mrn,
                  !.delete_files = delete_files,
                  !.found = count_where(images, "ImagePat", mrn)]
    /\ run' = RunMixed
    /\ UNCHANGED <<files, clock>>
    /\ UNCHANGED <<filtervars, instvars, schemavars, extvars>>

\* ---------------------------------------------------------------- name filter

\* re.IGNORECASE; flags=0 clears it.
IGNORECASE == 2

\* A string is a sequence of characters.  A pattern is a sequence of regular
\* expression tokens: a literal character, "^" (start of string) or "\\d" (a
\* digit); re.match anchors it at the start of the name.
Digits == {"0", "1", "2", "3", "4", "5", "6", "7", "8", "9"}

LowerOf == [C |-> "c", E |-> "e", I |-> "i", M |-> "m", N |-> "n", O |-> "o",
            P |-> "p", Q |-> "q", S |-> "s", T |-> "t", V |-> "v", Z |-> "z"]

Lower(c) == IF c \in DOMAIN LowerOf THEN LowerOf[c] ELSE c

\* Faulty variant: the flags are not handed to re.compile.
char_matches_exact(pc, c, flags) == pc = c

\* Faulty variant: re.IGNORECASE is always on.
char_matches_nocase(pc, c, flags) == Lower(pc) = Lower(c)

\* One literal pattern character against one character of the name.
char_matches(pc, c, flags) ==
    IF flags = IGNORECASE THEN Lower(pc) = Lower(c) ELSE pc = c

\* re.compile(pattern, flags).match(name), from position pos of the name.
RECURSIVE match_from(_, _, _, _)
match_from(pattern, name, pos, flags) ==
    IF pattern = <<>> THEN TRUE
    ELSE IF Head(pattern) = "^"
         THEN pos = 1 /\ match_from(Tail(pattern), name, pos, flags)
    ELSE IF pos > Len(name) THEN FALSE
    ELSE IF Head(pattern) = "\\d"
         THEN name[pos] \in Digits /\ match_from(Tail(pattern), name, pos + 1, flags)
    ELSE char_matches(Head(pattern), name[pos], flags)
         /\ match_from(Tail(pattern), name, pos + 1, flags)

match(pattern, name, flags) == match_from(pattern, name, 1, flags)

\* The class attributes (lines 49-51): r'^Z\d', r'^Ext', 'ISOC', 'QME', 'NP'.
DefaultExclude ==
    << <<"^", "Z", "\\d">>, <<"^", "E", "x", "t">>, <<"I", "S", "O", "C">>,
       <<"Q", "M", "E">>, <<"N", "P">> >>

DefaultInclude == << <<>> >>

\* The patterns the calls draw from: '', 'Ex' and 'PTV'.
Patterns == { <<>>, <<"E", "x">>, <<"P", "T", "V">> }

\* The names: 'ex', 'lung', 'PTV', 'ptv' and 'PT'.
RoiNames ==
    { <<"e", "x">>, <<"l", "u", "n", "g">>, <<"P", "T", "V">>, <<"p", "t", "v">>,
      <<"P", "T">> }

SeqsUpTo(S, n) == UNION { [1..k -> S] : k \in 0..n }

\* An exclude or include argument: one string, or a list of strings.
FilterArgs ==
    [kind : {"str"}, v : Patterns]
      \cup [kind : {"list"}, v : SeqsUpTo(Patterns, MaxPatterns)]

\* Faulty variant: the string is stored as it is; iterating it yields its
\* characters, each one a pattern.
as_list_unwrapped(arg) ==
    IF arg.kind = "str" THEN [k \in 1..Len(arg.v) |-> <<arg.v[k]>>] ELSE arg.v

\* Lines 838-841: "if only a string is given, put it in a list".
as_list(arg) == IF arg.kind = "str" THEN <<arg.v>> ELSE arg.v

\* Lines 861-864: one exclude pass per pattern, each over what the previous
\* pass left.
RECURSIVE exclude_pass(_, _, _)
exclude_pass(patterns, names, flags) ==
    IF patterns = <<>> THEN names
    ELSE LET Keep(roiname) == ~match(Head(patterns), roiname, flags)
         IN  exclude_pass(Tail(patterns), SelectSeq(names, Keep), flags)

\* The guard of line 861 on a non-empty exclude list.
exclude_applies(excl) == excl[1] # <<>>

\* Faulty variant: a name is appended once, whatever number of include
\* patterns it matches.
include_pass_once(patterns, names, flags) ==
    LET Hit(roiname) == \E k \in 1..Len(patterns) : match(patterns[k], roiname, flags)
    IN  SelectSeq(names, Hit)

\* Lines 866-870: per include pattern, the matching names in input order.
RECURSIVE include_pass(_, _, _)
include_pass(patterns, names, flags) ==
    IF patterns = <<>> THEN <<>>
    ELSE LET Hit(roiname) == match(Head(patterns), roiname, flags)
         IN  SelectSeq(names, Hit) \o include_pass(Tail(patterns), names, flags)

\* filter_roinames: self.exclude_filter[0] raises IndexError on an empty list.
filter_roinames(excl, incl, flags, names) ==
    IF excl = <<>>
    THEN [raised |-> TRUE, returnlist |-> <<>>]
    ELSE [raised |-> FALSE,
          returnlist |->
              include_pass(incl,
                           IF exclude_applies(excl)
                           THEN exclude_pass(excl, names, flags)
                           ELSE names,
                           flags)]

\* c.set_roi_filter(exclude, include, roi_filter_flags).  A call overwrites
\* all three attributes whatever they held, so one call per behaviour shows
\* every configuration.
SetRoiFilter(exclude, include, flags) ==
    /\ ~configured /\ fpc = "idle"
    /\ exclude_filter' = as_list(exclude)
    /\ include_filter' = as_list(include)
    /\ roi_filter_flags' = flags
    /\ configured' = TRUE
    /\ setargs' = [exclude |-> exclude, include |-> include]
    /\ UNCHANGED <<roinames, returnlist, fpc>>
    /\ UNCHANGED <<storevars, instvars, schemavars, extvars>>

\* c.filter_roinames(names), on the class defaults or after set_roi_filter.
\* The call changes no attribute, so one call per behaviour shows its result.
FilterRoinames(names) ==
    /\ fpc = "idle"
    /\ LET out == filter_roinames(exclude_filter, include_filter,
                                  roi_filter_flags, names)
       IN  /\ returnlist' = out.returnlist
           /\ fpc' = IF out.raised THEN "raised" ELSE "filtered"
    /\ roinames' = names
    /\ UNCHANGED <<exclude_filter, include_filter, roi_filter_flags, configured,
                   setargs>>
    /\ UNCHANGED <<storevars, instvars, schemavars, extvars>>

\* ---------------------------------------------------- a second instance

\* The three last-seen attributes.
MemoAttrs == {"series", "study", "patient"}

\* What stands for an attribute the instance itself does not have.
Unset == "<unset>"

\* Lines 34-36: __prev_seriesuid = '', __prev_studyuid = '',
\* __prev_patientid = '' in the class body.
ClassMemo == [a \in MemoAttrs |-> ""]

\* The own attributes of a new instance: __init__ assigns none of the three.
NoMemo == [a \in MemoAttrs |-> Unset]

\* Reading self.__prev_*: the attribute of the instance, the class attribute
\* when the instance has none.
load_memo(self_memo, cls) ==
    [a \in MemoAttrs |-> IF self_memo[a] = Unset THEN cls[a] ELSE self_memo[a]]

\* Faulty variant: the assignments go to the class, pyconquest.__prev_* = ...
store_memo_on_class(self_memo, cls, old, new) ==
    [self |-> self_memo,
     cls |-> [a \in MemoAttrs |-> IF new[a] # old[a] THEN new[a] ELSE cls[a]]]

\* The assignments self.__prev_* = ... of lines 325, 338 and 346: each is
\* made when the value differs from the one read, and binds the attribute on
\* the instance.
store_memo(self_memo, cls, old, new) ==
    [self |-> [a \in MemoAttrs |-> IF new[a] # old[a] THEN new[a] ELSE self_memo[a]],
     cls |-> cls]

\* c2 = pyconquest(database_filename=self.database_filename, ...): a new
\* instance on the database of c (as line 777 makes one per received record).
\* connect_db finds the tables and leaves them alone.
Construct ==
    /\ c2_alive' = TRUE
    /\ memo2' = NoMemo
    /\ last' = [NoCall EXCEPT !.op = "construct", !.on = "c2"]
    /\ result' = "None"
    /\ run' = RunMixed
    /\ UNCHANGED <<images, series, studies, patients, prev_seriesuid,
                   prev_studyuid, prev_patientid, files, clock, cls_memo>>
    /\ UNCHANGED <<filtervars, schemavars, extvars>>

\* c2.write_tags(ds, filename, check_existing): the tables of the shared
\* database, the memo of c2.  Instance c reads prev_seriesuid, prev_studyuid
\* and prev_patientid, the values it assigned last ('' of the class before).
WriteTagsC2(ds, filename, check_existing) ==
    /\ c2_alive
    /\ clock < MaxCalls
    /\ LET old == load_memo(memo2, cls_memo)
           out == write_tags([StoreState EXCEPT !.prev_seriesuid = old.series,
                                                !.prev_studyuid = old.study,
                                                !.prev_patientid = old.patient],
                             ds, filename, check_existing, clock + 1)
           new == [series |-> out.st.prev_seriesuid, study |-> out.st.prev_studyuid,
                   patient |-> out.st.prev_patientid]
           bound == store_memo(memo2, cls_memo, old, new)
       IN  /\ images' = out.st.images
           /\ series' = out.st.series
           /\ studies' = out.st.studies
           /\ patients' = out.st.patients
           /\ memo2' = bound.self
           /\ cls_memo' = bound.cls
           /\ result' = IF out.raised THEN "raised" ELSE "None"
    /\ clock' = clock + 1
    /\ last' = [NoCall EXCEPT !.op = "write_tags", !.on = "c2", !.sop = ds.sop,
                  !.series = ds.series, !.check_existing = check_existing]
    /\ run' = RunMixed
    /\ UNCHANGED <<prev_seriesuid, prev_studyuid, prev_patientid, files, c2_alive>>
    /\ UNCHANGED <<filtervars, schemavars, extvars>>

InitInstances ==
    /\ cls_memo = ClassMemo
    /\ c2_alive = FALSE
    /\ memo2 = NoMemo

\* ------------------------------------------------------- schema registry

\* Line 26-30: __name_to_tablename, the level names a "*" line may carry.
name_to_tablename ==
    [Series |-> "DICOMseries", Image |-> "DICOMimages",
     Patient |-> "DICOMpatients", Study |-> "DICOMstudies",
     WorkList |-> "DICOMworklist"]

TableNames == { name_to_tablename[n] : n \in DOMAIN name_to_tablename }

\* An attribute mapping [group, element, column name]; a column name is a
\* sequence of characters.
Mapping(group, element, colname) ==
    [group |-> group, element |-> element, colname |-> colname]

\* A registry (__db_design): per table whether it is a key of the dict, and
\* its list of mappings.
EmptyDesign == [t \in TableNames |-> [registered |-> FALSE, rows |-> <<>>]]

\* __set_default_database (lines 908-1021): the five tables.  Of each table
\* the model keeps the first mapping of the literal.
DefaultDesign ==
    [t \in TableNames |->
       [registered |-> TRUE,
        rows |-> << CASE t = "DICOMpatients" ->
                           Mapping("0x0010", "0x0020", <<"P","a","t","i","e","n","t","I","D">>)
                      [] t = "DICOMstudies" ->
                           Mapping("0x0020", "0x000d", <<"S","t","u","d","y","I","n","s","t","a">>)
                      [] t = "DICOMseries" ->
                           Mapping("0x0020", "0x000e", <<"S","e","r","i","e","s","I","n","s","t">>)
                      [] t = "DICOMimages" ->
                           Mapping("0x0008", "0x0018", <<"S","O","P","I","n","s","t","a","n","c">>)
                      [] OTHER ->
                           Mapping("0x0008", "0x0050", <<"A","c","c","e","s","s","i","o","n","N">>) >>]]

\* What stands for a schema source file that does not exist.
Absent == <<[kind |-> "absent"]>>

\* The lines of a schema source, by what the loop of lines 259-281 sees in
\* them: "comment" starts with '#', '/*' or '*/'; "start" starts with '*' and
\* carries a level name; "end" starts with '}'; "column" is blank, '{', the
\* comma-separated fields, '}'; "other" is any other line (the '{' line that
\* opens a block, an empty line).
CommentLine == [kind |-> "comment", name |-> "", fields |-> 0, colname |-> <<>>]
StartLine(name) == [kind |-> "start", name |-> name, fields |-> 0, colname |-> <<>>]
EndLine == [kind |-> "end", name |-> "", fields |-> 0, colname |-> <<>>]
OtherLine == [kind |-> "other", name |-> "", fields |-> 0, colname |-> <<>>]

\* A column line { 0x0010, 0x0020, <colname>, ... } of the given number of
\* fields; the group and element of the model's lines are those of PatientID.
ColumnLine(colname, fields) ==
    [kind |-> "column", name |-> "", fields |-> fields, colname |-> colname]

\* The lines the schema sources are made of: '*Patient', '*Series', a '*'
\* line of an unknown level, '}', a comment, '{', the three-field line of
\* PatientID and a four-field line of "PatientBirthDate" (quoted).
SchemaLines ==
    { CommentLine, StartLine("Patient"), StartLine("Series"), StartLine("Nonsense"),
      EndLine, OtherLine,
      ColumnLine(<<"P","a","t","i","e","n","t","I","D">>, 3),
      ColumnLine(<<"\"","P","a","t","i","e","n","t","B","i","r","t","h","D","a","t","e","\"">>, 4) }

\* The schema sources of the first instance: no file, or up to MaxLines lines.
SqlFiles == {Absent} \cup SeqsUpTo(SchemaLines, MaxLines)

\* The schema sources of the instances constructed after it: no file, an
\* empty file, a file defining a Series table.
LaterSqlFiles ==
    { Absent, <<>>,
      <<StartLine("Series"), ColumnLine(<<"P","a","t","i","e","n","t","I","D">>, 3),
        EndLine>> }

\* Faulty variant: the clipping before the quotes are removed.
truncate_colname_clips_first(colname) ==
    LET Kept(ch) == ch # "\"" /\ ch # " "
    IN  SelectSeq(SubSeq(colname, 1, IF Len(colname) < 10 THEN Len(colname) ELSE 10),
                  Kept)

\* Line 279: col[2].replace('"', '').replace(' ', '')[0:10].
truncate_colname(colname) ==
    LET Kept(ch) == ch # "\"" /\ ch # " "
        bare == SelectSeq(colname, Kept)
    IN  SubSeq(bare, 1, IF Len(bare) < 10 THEN Len(bare) ELSE 10)

\* col[1] of a column line: (0010,0020) unless the line says otherwise.
line_element(line) == IF "element" \in DOMAIN line THEN line.element ELSE "0x0020"

\* The locals and the dict of the loop before its first line.  aliased:
\* __db_design[tablename] is the list object list_of_rows.
LoopStart(design) ==
    [bound |-> FALSE, tablename |-> "", list_of_rows |-> <<>>, aliased |-> FALSE,
     design |-> design, raised |-> FALSE]

\* One pass of the loop body (lines 260-281).
read_line(ps, line) ==
    CASE line.kind \in {"comment", "other"} -> ps
      [] line.kind = "start" ->
           \* line 266 raises KeyError on an unknown level name
           IF line.name \notin DOMAIN name_to_tablename
           THEN [ps EXCEPT !.raised = TRUE]
           ELSE [ps EXCEPT !.bound = TRUE,
                           !.tablename = name_to_tablename[line.name],
                           !.list_of_rows = <<>>, !.aliased = FALSE]
      [] line.kind = "end" ->
           \* line 272 reads tablename: UnboundLocalError before any '*' line
           IF ~ps.bound
           THEN [ps EXCEPT !.raised = TRUE]
           ELSE [ps EXCEPT !.design[ps.tablename] =
                              [registered |-> TRUE, rows |-> ps.list_of_rows],
                           !.aliased = TRUE]
      [] OTHER ->
           \* col[2] raises IndexError on fewer than three fields, and
           \* list_of_rows is unbound before any '*' line
           IF line.fields < 3 \/ ~ps.bound
           THEN [ps EXCEPT !.raised = TRUE]
           ELSE LET rows == Append(ps.list_of_rows,
                                   Mapping("0x0010", line_element(line),
                                           truncate_colname(line.colname)))
                IN  [ps EXCEPT !.list_of_rows = rows,
                               !.design[ps.tablename].rows =
                                  IF ps.aliased THEN rows ELSE @]

\* The loop: the lines in order, up to the one that raises.
RECURSIVE read_lines(_, _)
read_lines(ps, lines) ==
    IF lines = <<>> \/ ps.raised THEN ps
    ELSE read_lines(read_line(ps, Head(lines)), Tail(lines))

\* Faulty variant: the default is also taken when the file defines no table.
uses_default_without_table(file) ==
    file = Absent \/ \A k \in 1..Len(file) : file[k].kind # "start"

\* Line 249: "if os.path.exists(filename)" fails.
uses_default(file) == file = Absent

\* __read_conquest_sql_inifile on a new instance: what the class dict
\* pyconquest.__db_design (line 37) holds afterwards, whether the instance got
\* a __db_design attribute of its own (line 910 assigns one), and whether the
\* call raised.  Line 273 stores into the dict the instance reads, the one
\* of the class.
read_conquest_sql_inifile(file, class_design) ==
    IF uses_default(file)
    THEN [file |-> file, raised |-> FALSE, own |-> TRUE, own_design |-> DefaultDesign,
          class_design |-> class_design]
    ELSE LET ps == read_lines(LoopStart(class_design), file)
         IN  [file |-> file, raised |-> ps.raised, own |-> FALSE,
              own_design |-> EmptyDesign, class_design |-> ps.design]

\* self.__db_design as instance number i reads it.
registry(i) ==
    IF sql_instances[i].own THEN sql_instances[i].own_design ELSE class_db_design

\* pyconquest(sql_inifile_name=file, ...) with connect_and_read_sql=True: one
\* more instance in the process (line 76).  class_design of its entry: the
\* class dict as the call left it.
ReadInifile(file) ==
    /\ Len(sql_instances) < MaxInstances
    /\ LET out == read_conquest_sql_inifile(file, class_db_design)
       IN  /\ class_db_design' = out.class_design
           /\ sql_instances' = Append(sql_instances,
                                      [file |-> out.file, raised |-> out.raised,
                                       own |-> out.own, own_design |-> out.own_design,
                                       class_design |-> out.class_design])
    /\ UNCHANGED <<storevars, filtervars, instvars, extvars>>

InitSchema ==
    /\ class_db_design = EmptyDesign
    /\ sql_instances = <<>>

\* --------------------------------------------- tables and attribute extraction

\* A column line whose second field is the given element of group 0x0010.
ColumnLineOf(element, colname, fields) ==
    [kind |-> "column", name |-> "", fields |-> fields, colname |-> colname,
     element |-> element]

\* The column lines of the schema sources the tables are built from:
\* PatientID (0010,0020), PatientBirthDate (0010,0030) and PatientBirthTime
\* (0010,0032); the last two are clipped to the same ten characters.
ColumnLines ==
    { ColumnLineOf("0x0020", <<"P","a","t","i","e","n","t","I","D">>, 3),
      ColumnLineOf("0x0030",
                   <<"P","a","t","i","e","n","t","B","i","r","t","h","D","a","t","e">>, 3),
      ColumnLineOf("0x0032",
                   <<"P","a","t","i","e","n","t","B","i","r","t","h","T","i","m","e">>, 3) }

\* Those schema sources: one level block of up to MaxColumns column lines.
TableSqlFiles ==
    { <<StartLine(level)>> \o cols \o <<EndLine>> :
        level \in {"Patient", "Series"}, cols \in SeqsUpTo(ColumnLines, MaxColumns) }

\* Line 31-32: __extra_imagetable_columns.
extra_imagetable_columns ==
    << <<"O","b","j","e","c","t","F","i","l","e">>,
       <<"E","l","e","m","e","n","t","C","o","u","n","t">>,
       <<"E","l","e","m","e","n","t","L","i","s","t">>,
       <<"N","f","r","a","c","t","i","o","n","s">>,
       <<"U","n","i","q","u","e","F","O","R","_","U","I","D">>,
       <<"R","e","f","e","r","e","n","c","e","d","S","e","r","i","e","s","U","I","D">>,
       <<"D","a","t","a","b","a","s","e","T","i","m","e","S","t","a","m","p">>,
       <<"h","a","s","h">> >>

\* The keys of a dict the given keys were assigned to in order: a key that is
\* assigned again keeps its place.
RECURSIVE dict_keys(_)
dict_keys(keys) ==
    IF keys = <<>> THEN <<>>
    ELSE LET before == dict_keys(SubSeq(keys, 1, Len(keys) - 1))
             key == keys[Len(keys)]
         IN  IF \E k \in 1..Len(before) : before[k] = key
             THEN before
             ELSE Append(before, key)

\* Lines 355-362: colnames[item[2]] = 'dummy' per mapping, and the extra
\* columns of the images table.
colnames_of(tablename, tablelist) ==
    dict_keys([k \in 1..Len(tablelist) |-> tablelist[k].colname]
              \o (IF tablename = "DICOMimages" THEN extra_imagetable_columns ELSE <<>>))

\* No table of the database file.
NoTables == [t \in TableNames |-> [exists |-> FALSE, columns |-> <<>>]]

\* create_standard_dicom_tables (lines 352-367): per registered table, drop
\* it and create it with one column per key of colnames.  CREATE TABLE with
\* an empty column list is an sqlite error, which execute_db_query logs.
create_standard_dicom_tables(design, tables) ==
    [t \in TableNames |->
       IF design[t].registered
       THEN LET cols == colnames_of(t, design[t].rows)
            IN  [exists |-> cols # <<>>, columns |-> cols]
       ELSE tables[t]]

\* c.create_standard_dicom_tables() on instance number n.  The call returns
\* None; no statement of it raises to the caller.
CreateStandardDicomTables(n) ==
    /\ n \in 1..Len(sql_instances)
    /\ ~sql_instances[n].raised
    /\ db_columns' = [built |-> TRUE, by |-> n, raised |-> FALSE,
                      tables |-> create_standard_dicom_tables(registry(n),
                                                              db_columns.tables)]
    /\ UNCHANGED <<storevars, filtervars, instvars, schemavars>>
    /\ UNCHANGED <<tabledict, returndict, newtable, procs>>

\* The elements of group 0x0010 the schema lines map, and a record: per
\* element its value, NoTag when the record does not carry it.
SchemaElements == {"0x0020", "0x0030", "0x0032"}

SchemaRecords == [SchemaElements -> {NoTag, "A", "B"}]

\* tabledict[key] = val: the item of the key is replaced, a new key is added
\* at the end.
dict_set(items, key, val) ==
    IF \E k \in 1..Len(items) : items[k].key = key
    THEN [k \in 1..Len(items) |->
            IF items[k].key = key THEN [key |-> key, val |-> val] ELSE items[k]]
    ELSE Append(items, [key |-> key, val |-> val])

\* Lines 286-290: ds[item[0], item[1]].value, '' when the lookup raises.
lookup(ds, item) ==
    [raised |-> FALSE, val |-> IF ds[item.element] = NoTag THEN "" ELSE ds[item.element]]

\* Line 291: item[2].replace('"', '').
strip_quotes(colname) == SelectSeq(colname, LAMBDA ch : ch # "\"")

\* The loop of lines 285-291 over the mappings of the table.
RECURSIVE tabledict_items(_, _)
tabledict_items(tablelist, ds) ==
    IF tablelist = <<>> THEN [raised |-> FALSE, items |-> <<>>]
    ELSE LET before == tabledict_items(SubSeq(tablelist, 1, Len(tablelist) - 1), ds)
             item == tablelist[Len(tablelist)]
             found == lookup(ds, item)
         IN  IF before.raised \/ found.raised
             THEN [raised |-> TRUE, items |-> <<>>]
             ELSE [raised |-> FALSE,
                   items |-> dict_set(before.items, strip_quotes(item.colname),
                                      found.val)]

\* __create_tabledict(tablename, ds): self.__db_design[tablename] raises
\* KeyError when the registry has no such table.
create_tabledict(design, tablename, ds) ==
    IF ~design[tablename].registered
    THEN [raised |-> TRUE, items |-> <<>>]
    ELSE tabledict_items(design[tablename].rows, ds)

\* A call of __create_tabledict on instance number n, as write_tags makes
\* one per level.
CreateTabledict(n, tablename, ds) ==
    /\ n \in 1..Len(sql_instances)
    /\ ~sql_instances[n].raised
    /\ LET out == create_tabledict(registry(n), tablename, ds)
       IN  tabledict' = [called |-> TRUE, by |-> n, tablename |-> tablename,
                         ds |-> ds, raised |-> out.raised, items |-> out.items]
    /\ UNCHANGED <<storevars, filtervars, instvars, schemavars>>
    /\ UNCHANGED <<db_columns, returndict, newtable, procs>>

\* ------------------------------------------------------- derived attributes

\* Regions in the region sequence (3006,0020) of a structure set.
MaxContours == 2

\* Fraction groups in the fraction group sequence (300a,0070) of a plan.
MaxGroups == 2

\* An item of the region sequence: its name (3006,0026) and its frame of
\* reference (3006,0024), NoTag when the item does not carry one.
Regions ==
    { [name |-> "PTV", for |-> "f1"], [name |-> "lung", for |-> "f2"],
      [name |-> "cord", for |-> NoTag] }

\* An item of the fraction group sequence: the planned fractions (300a,0078)
\* and the beams (300a,0080).
FractionGroups ==
    { [fractions |-> 10, beams |-> 1], [fractions |-> 20, beams |-> 2],
      [fractions |-> 10, beams |-> 2] }

\* A sequence attribute of a record: carried with its items, or missing.
Missing == [present |-> FALSE, items |-> <<>>]

Sequence(items) == [present |-> TRUE, items |-> items]

SequencesUpTo(S, n) == {Missing} \cup { Sequence(items) : items \in SeqsUpTo(S, n) }

\* What __extra_dicom_tags reads of a record: the modality (0008,0060), the
\* region sequence, the series the structure set refers to (the chain of
\* line 485), the fraction group sequence.
DerivedPart(modality, contours, referenced, groups) ==
    [modality |-> modality, contours |-> contours, referenced |-> referenced,
     groups |-> groups]

DerivedParts ==
    { DerivedPart(m, Missing, NoTag, Missing) : m \in {NoTag, "CT"} }
      \cup { DerivedPart("RTSTRUCT", c, r, Missing) :
               c \in SequencesUpTo(Regions, MaxContours), r \in {NoTag, "s1"} }
      \cup { DerivedPart("RTPLAN", Missing, NoTag, g) :
               g \in SequencesUpTo(FractionGroups, MaxGroups) }

\* The values of a sequence, as a set.
Range(seq) == { seq[k] : k \in 1..Len(seq) }

\* Faulty variant: the first value, whatever the others are.
unique_for_uid_first(fors) == IF fors = <<>> THEN "" ELSE fors[1]

\* Lines 470, 473-476: unique_frame_of_ref = list(set(...)); its only value
\* when it has one, '' otherwise.
unique_for_uid(fors) ==
    IF Cardinality(Range(fors)) = 1 THEN CHOOSE v \in Range(fors) : TRUE ELSE ""

\* Faulty variant: the list, however long it is.
scalar_or_list_always_list(vals) == [islist |-> TRUE, vals |-> vals]

\* Lines 499-507: the value when the list has one, otherwise the list.
scalar_or_list(vals) == [islist |-> Len(vals) # 1, vals |-> vals]

\* A value that is not a list.
scalar(v) == [islist |-> FALSE, vals |-> <<v>>]

\* The dict before line 462, and the result of a call that raised.
EmptyReturndict ==
    [raised |-> FALSE, keys |-> {}, DatabaseTimeStamp |-> 0, ElementList |-> <<>>,
     ElementCount |-> scalar(0), UniqueFOR_UID |-> "", ReferencedSeriesUID |-> "",
     Nfractions |-> scalar(0)]

Raised == [EmptyReturndict EXCEPT !.raised = TRUE]

\* Lines 464-487, the structure set.  ds[0x3006, 0x0020] and the lookups
\* per region are not guarded; the referenced series is (lines 484-488).
rtstruct_tags(rt, dict) ==
    IF ~rt.contours.present THEN Raised
    ELSE IF \E k \in 1..Len(rt.contours.items) : rt.contours.items[k].for = NoTag
    THEN Raised
    ELSE LET contours == rt.contours.items
             contournamelist == [k \in 1..Len(contours) |-> contours[k].name]
             FrameOfReferenceUID_List == [k \in 1..Len(contours) |-> contours[k].for]
             filled == [dict EXCEPT
                          !.keys = @ \cup {"ElementList", "ElementCount", "UniqueFOR_UID"},
                          !.ElementList = contournamelist,
                          !.ElementCount = scalar(Len(contournamelist)),
                          !.UniqueFOR_UID = unique_for_uid(FrameOfReferenceUID_List)]
         IN  IF rt.referenced = NoTag
             THEN filled
             ELSE [filled EXCEPT !.keys = @ \cup {"ReferencedSeriesUID"},
                                 !.ReferencedSeriesUID = rt.referenced]

\* Lines 490-508, the plan.  ds[0x300a, 0x0070] is not guarded.
rtplan_tags(rt, dict) ==
    IF ~rt.groups.present THEN Raised
    ELSE LET FractionGroupSequence == rt.groups.items
             nr_fractions_list == [k \in 1..Len(FractionGroupSequence) |->
                                     FractionGroupSequence[k].fractions]
             nr_beams_list == [k \in 1..Len(FractionGroupSequence) |->
                                 FractionGroupSequence[k].beams]
         IN  [dict EXCEPT !.keys = @ \cup {"Nfractions", "ElementCount"},
                          !.Nfractions = scalar_or_list(nr_fractions_list),
                          !.ElementCount = scalar_or_list(nr_beams_list)]

\* __extra_dicom_tags on an instance constructed with compute_hash=False
\* (the default of line 54).  ds[0x0008, 0x0060] is not guarded.
extra_dicom_tags(rt, now) ==
    LET dict == [EmptyReturndict EXCEPT !.keys = {"DatabaseTimeStamp"},
                                        !.DatabaseTimeStamp = now]
    IN  IF rt.modality = NoTag THEN Raised
        ELSE IF rt.modality = "RTSTRUCT" THEN rtstruct_tags(rt, dict)
        ELSE IF rt.modality = "RTPLAN" THEN rtplan_tags(rt, dict)
        ELSE dict

\* The attributes of the record itself that DICOMseries maps to FrameOfRef
\* (0x0020,0x0052) and Referenced (0x0008,0x1155): carried or not.
TopLevels ==
    { [frameofref |-> NoTag, referenced |-> NoTag],
      [frameofref |-> "f0", referenced |-> "r0"] }

\* Faulty variant: the series row as __create_tabledict built it.
seriesdict_not_copied(ds, top, extra) ==
    [SeriesInst |-> ds.series, StudyInsta |-> ds.study, SeriesPat |-> ds.patient,
     FrameOfRef |-> tabledict_value(top, "frameofref"),
     Referenced |-> tabledict_value(top, "referenced")]

\* Lines 327-332: the series row of __create_tabledict, then the derived
\* values of imagedict over FrameOfRef and Referenced when imagedict has
\* the keys.
seriesdict_derived(ds, top, extra) ==
    [SeriesInst |-> ds.series, StudyInsta |-> ds.study, SeriesPat |-> ds.patient,
     FrameOfRef |-> IF "UniqueFOR_UID" \in extra.keys THEN extra.UniqueFOR_UID
                    ELSE tabledict_value(top, "frameofref"),
     Referenced |-> IF "ReferencedSeriesUID" \in extra.keys
                    THEN extra.ReferencedSeriesUID
                    ELSE tabledict_value(top, "referenced")]

\* write_tags on a record with the parts rt: line 314 calls
\* __extra_dicom_tags when the image row is to be inserted, before the
\* insert of lines 315-316, and an exception of it leaves write_tags there.
\* The series row, when the call inserts one, is the row of lines 327-332.
write_tags_derived(st, ds, top, rt, filename, check_existing, now) ==
    LET row_exists == IF check_existing
                      THEN check_if_table_contains(st.images, "SOPInstanc", ds.sop)
                      ELSE FALSE
        extra == extra_dicom_tags(rt, now)
    IN  IF ~row_exists /\ extra.raised
        THEN [st |-> st, raised |-> TRUE, called |-> TRUE, extra |-> extra]
        ELSE LET out == write_tags(st, ds, filename, check_existing, now)
                 n == Len(out.st.series)
                 st1 == IF n > Len(st.series)
                        THEN [out.st EXCEPT
                                !.series[n] = seriesdict_derived(ds, top, extra)]
                        ELSE out.st
             IN  [st |-> st1, raised |-> out.raised, called |-> ~row_exists,
                  extra |-> IF row_exists THEN EmptyReturndict ELSE extra]

\* No call of __extra_dicom_tags yet, or none in the last write_tags.
NoReturndict ==
    [called |-> FALSE, rt |-> DerivedPart(NoTag, Missing, NoTag, Missing),
     dict |-> EmptyReturndict]

\* A direct call c.write_tags(ds, filename, check_existing) on a record
\* with the parts rt.
WriteTagsDerived(ds, top, rt, filename, check_existing) ==
    /\ clock < MaxCalls
    /\ LET out == write_tags_derived(StoreState, ds, top, rt, filename,
                                     check_existing, clock + 1)
       IN  /\ SetStore(out.st)
           /\ result' = IF out.raised THEN "raised" ELSE "None"
           /\ returndict' = [called |-> out.called, rt |-> rt, dict |-> out.extra]
    /\ clock' = clock + 1
    /\ last' = [NoCall EXCEPT !.op = "write_tags", !.sop = ds.sop,
                  !.series = ds.series, !.study = ds.study,
                  !.patient = ds.patient, !.check_existing = check_existing]
    /\ run' = RunAfterWrite(ds)
    /\ UNCHANGED files
    /\ UNCHANGED <<filtervars, instvars, schemavars>>
    /\ UNCHANGED <<db_columns, tabledict, newtable, procs>>

\* ------------------------------------------------- connect, store, receive

\* The outcomes of the query of line 92 on a database that has its tables:
\* it returns the row of DICOMseries; or it raises inside execute_db_query
\* (a locked or unreadable database file) and the statements after it
\* succeed ("failed_once") or raise as well ("failed").
QueryOutcomes == {"ok", "failed_once", "failed"}

\* execute_db_query (lines 111-128): the list of rows, None when the query
\* raised; "if not result" (line 93) holds for None as for the empty list.
query_result(outcome) == IF outcome = "ok" THEN "row" ELSE "empty"

\* The rows after create_standard_dicom_tables on the default tables: each
\* table is dropped (line 366) and created again (line 367).
recreate_tables(st) ==
    [st EXCEPT !.images = <<>>, !.series = <<>>, !.studies = <<>>, !.patients = <<>>]

\* connect_db (lines 87-95).  When the statements of
\* create_standard_dicom_tables raise too, __delete_table and
\* execute_db_query log them and the tables stay.
connect_db(st, outcome) ==
    IF query_result(outcome) = "empty" /\ outcome # "failed"
    THEN recreate_tables(st)
    ELSE st

\* A call c.connect_db(), as __init__ makes one (line 78).
ConnectDb(outcome) ==
    /\ clock < MaxCalls
    /\ SetStore(connect_db(StoreState, outcome))
    /\ result' = "None"
    /\ clock' = clock + 1
    /\ last' = [NoCall EXCEPT !.op = "connect_db", !.query = outcome]
    /\ run' = RunMixed
    /\ UNCHANGED files
    /\ UNCHANGED <<filtervars, instvars, schemavars, extvars>>

\* A file store_dicom_file is called on: one dcmread can read, holding the
\* record ds, or one it cannot (no such file, not a DICOM file).
NoDataset == [sop |-> NoTag, series |-> NoTag, study |-> NoTag, patient |-> NoTag]

SourceFile(ds) == [readable |-> TRUE, ds |-> ds]

Unreadable == [readable |-> FALSE, ds |-> NoDataset]

\* Faulty variant: the body without its try block.
store_dicom_file_uncaught(st, fs, source, now) ==
    IF ~source.readable
    THEN [st |-> st, files |-> fs, raised |-> TRUE]
    ELSE LET out == write_tags(st, source.ds, FileOf(source.ds), TRUE, now)
         IN  [st |-> out.st, files |-> fs \cup {FileOf(source.ds)},
              raised |-> out.raised]

\* store_dicom_file (lines 408-433): dcmread, the copy into the directory
\* of the patient, write_tags; an exception of any of them is logged by the
\* except clause of line 432.
store_dicom_file(st, fs, source, now) ==
    IF ~source.readable
    THEN [st |-> st, files |-> fs, raised |-> FALSE]
    ELSE LET out == write_tags(st, source.ds, FileOf(source.ds), TRUE, now)
         IN  [st |-> out.st, files |-> fs \cup {FileOf(source.ds)},
              raised |-> FALSE]

\* A call c.store_dicom_file(filename).  The file named lies outside the
\* data directory.
StoreDicomFile(source) ==
    /\ clock < MaxCalls
    /\ LET out == store_dicom_file(StoreState, files, source, clock + 1)
       IN  /\ SetStore(out.st)
           /\ files' = out.files
           /\ result' = IF out.raised THEN "raised" ELSE "None"
    /\ clock' = clock + 1
    /\ last' = [NoCall EXCEPT !.op = "store_dicom_file", !.sop = source.ds.sop,
                  !.series = source.ds.series, !.check_existing = TRUE]
    /\ run' = RunMixed
    /\ UNCHANGED <<filtervars, instvars, schemavars, extvars>>

\* Faulty variant: the record is written by the instance called, with its
\* own memo.
handle_dicom_store_request_on_self(st, fs, cls, ds, now) ==
    LET filename2 == FileRef(ds.patient, ds.sop \o ".dcm")
        out == write_tags(st, ds, filename2, TRUE, now)
    IN  [st |-> out.st, files |-> fs \cup {filename2}, cls |-> cls,
         status |-> IF out.raised THEN "raised" ELSE "0x0000"]

\* handle_dicom_store_request (lines 753-784): the record is saved as
\* <patientid>/<SOPInstanceUID>.dcm (lines 766-773), read back, and written
\* by a new instance c2 (line 777), whose memo is the one of the class.  The
\* return of line 784 is reached when write_tags returned; an exception of
\* write_tags leaves the handler.
handle_dicom_store_request(st, fs, cls, ds, now) ==
    LET filename2 == FileRef(ds.patient, ds.sop \o ".dcm")
        old == load_memo(NoMemo, cls)
        out == write_tags([st EXCEPT !.prev_seriesuid = old.series,
                                     !.prev_studyuid = old.study,
                                     !.prev_patientid = old.patient],
                          ds, filename2, TRUE, now)
        new == [series |-> out.st.prev_seriesuid, study |-> out.st.prev_studyuid,
                patient |-> out.st.prev_patientid]
    IN  [st |-> [out.st EXCEPT !.prev_seriesuid = st.prev_seriesuid,
                               !.prev_studyuid = st.prev_studyuid,
                               !.prev_patientid = st.prev_patientid],
         files |-> fs \cup {filename2},
         cls |-> store_memo(NoMemo, cls, old, new).cls,
         status |-> IF out.raised THEN "raised" ELSE "0x0000"]

\* The listener calls c.handle_dicom_store_request(event) with the record
\* ds received.
HandleDicomStoreRequest(ds) ==
    /\ clock < MaxCalls
    /\ LET out == handle_dicom_store_request(StoreState, files, cls_memo, ds, clock + 1)
       IN  /\ SetStore(out.st)
           /\ files' = out.files
           /\ cls_memo' = out.cls
           /\ result' = out.status
    /\ clock' = clock + 1
    /\ last' = [NoCall EXCEPT !.op = "handle_dicom_store_request", !.sop = ds.sop,
                  !.series = ds.series, !.study = ds.study,
                  !.patient = ds.patient, !.check_existing = TRUE]
    /\ run' = RunMixed
    /\ UNCHANGED <<c2_alive, memo2>>
    /\ UNCHANGED <<filtervars, schemavars, extvars>>

\* ---------------------------------------- delete_series: list and query form

\* Identities in the list delete_series is called with.
MaxUids == 2

\* The tables and the data directory.
StoreAndFiles(st, fs) == [st |-> st, files |-> fs]

\* The single form on the tables and the data directory: one outcome per
\* row the loop of lines 569-584 can end on.
single_outcomes(sf, seriesuid, delete_files) ==
    LET rl == return_list(sf.st, seriesuid)
    IN  { StoreAndFiles(delete_single(sf.st, seriesuid, lastrow),
                        sf.files \ removed_files(sf.st, seriesuid, delete_files)) :
            lastrow \in (IF rl = {} THEN {<<0, 0>>} ELSE rl) }

RECURSIVE delete_list_backwards(_, _, _)
\* Faulty variant: the loop runs over the list from its end.
delete_list_backwards(outcomes, seriesuid, delete_files) ==
    IF seriesuid = <<>>
    THEN outcomes
    ELSE delete_list_backwards(
           UNION { single_outcomes(sf, seriesuid[Len(seriesuid)], delete_files) :
                     sf \in outcomes },
           SubSeq(seriesuid, 1, Len(seriesuid) - 1), delete_files)

RECURSIVE delete_list(_, _, _)
\* Lines 553-556: for suid in seriesuid: self.delete_series(seriesuid=suid,
\* delete_files=delete_files), from each of the outcomes so far.
delete_list(outcomes, seriesuid, delete_files) ==
    IF seriesuid = <<>>
    THEN outcomes
    ELSE delete_list(
           UNION { single_outcomes(sf, Head(seriesuid), delete_files) : sf \in outcomes },
           Tail(seriesuid), delete_files)

\* c.delete_series(seriesuid=<list>, delete_files=...).
DeleteSeriesList(seriesuid, delete_files) ==
    /\ \E sf \in delete_list({StoreAndFiles(StoreState, files)}, seriesuid, delete_files) :
          /\ SetStore(sf.st)
          /\ files' = sf.files
    /\ last' = [NoCall EXCEPT !.op = "delete_series_list", !.uids = seriesuid,
                  !.delete_files = delete_files]
    /\ result' = "None"
    /\ run' = RunMixed
    /\ UNCHANGED clock
    /\ UNCHANGED <<filtervars, instvars, schemavars, extvars>>

\* The queries delete_series is called with: select * from dicomseries
\* where <col> = "<val>".
SeriesQuery(col, val) == [col |-> col, val |-> val]

NoQuery == SeriesQuery("", "")

SeriesQueries ==
    { SeriesQuery("SeriesPat", p) : p \in PatientIDs }
      \cup { SeriesQuery("StudyInsta", t) : t \in {"t1"} }

\* execute_db_query(query): the rows of dicomseries the query selects.
execute_series_query(st, query) ==
    SelectSeq(st.series, LAMBDA row : row[query.col] = query.val)

\* Line 548: serieslist = [d['SeriesInst'] for d in result].
serieslist(rows) == [k \in 1..Len(rows) |-> rows[k].SeriesInst]

\* Lines 546-551: the query is run once and its list handed to the list form.
delete_query(sf, query, delete_files) ==
    delete_list({sf}, serieslist(execute_series_query(sf.st, query)), delete_files)

\* c.delete_series(query=<query>, delete_files=...).
DeleteSeriesQuery(query, delete_files) ==
    /\ \E sf \in delete_query(StoreAndFiles(StoreState, files), query, delete_files) :
          /\ SetStore(sf.st)
          /\ files' = sf.files
    /\ last' = [NoCall EXCEPT !.op = "delete_series_query", !.where = query,
                  !.delete_files = delete_files]
    /\ result' = "None"
    /\ run' = RunMixed
    /\ UNCHANGED clock
    /\ UNCHANGED <<filtervars, instvars, schemavars, extvars>>

\* ----------------------------------------------------------------- insert_dict

\* Calls of insert_dict on the table.
MaxInserts == 2

\* The keys of the dicts, as characters.
DictKeys == { <<"c", "1">>, <<"c", "-", "2">> }

\* The values of the dicts: the strings 'v1' and "O'B", the list ['a', 'b'].
StrValue(chars) == [kind |-> "str", v |-> chars]

ListValue(items) == [kind |-> "list", v |-> items]

DictValues ==
    { StrValue(<<"v", "1">>), StrValue(<<"O", "'", "B">>), ListValue(<<"a", "b">>) }

\* The dicts: one or two items of different keys, in the order of the dict.
DataDicts ==
    { <<[key |-> k, val |-> v]>> : k \in DictKeys, v \in DictValues }
      \cup { <<[key |-> kk[1], val |-> v1], [key |-> kk[2], val |-> v2]>> :
               kk \in { pair \in DictKeys \X DictKeys : pair[1] # pair[2] },
               v1 \in DictValues, v2 \in DictValues }

\* s.replace(old, new) for one character old and the characters new.
RECURSIVE replace(_, _, _)
replace(chars, old, new) ==
    IF chars = <<>> THEN <<>>
    ELSE (IF Head(chars) = old THEN new ELSE <<Head(chars)>>)
           \o replace(Tail(chars), old, new)

\* repr of the items of a list of strings: 'a', 'b'.
RECURSIVE repr_items(_)
repr_items(items) ==
    IF items = <<>> THEN <<>>
    ELSE <<"'", Head(items), "'">>
           \o (IF Tail(items) = <<>> THEN <<>> ELSE <<",", " ">>)
           \o repr_items(Tail(items))

\* str(val): a string is itself, a list is ['a', 'b'].
str(val) ==
    IF val.kind = "str" THEN val.v ELSE <<"[">> \o repr_items(val.v) \o <<"]">>

\* __convert_listvalues_to_conquest_style (lines 223-230) on one value of a
\* key that is not an extra image column: a value whose text starts with
\* '[' loses its brackets and gets '\' for ','.
convert_listvalue(val) ==
    IF str(val) # <<>> /\ Head(str(val)) = "["
    THEN StrValue(replace(replace(replace(str(val), "[", <<>>), "]", <<>>),
                          ",", <<"\\">>))
    ELSE val

\* Line 194: the text of a value in values_string, where every ' of the
\* string is replaced by a blank.
sql_value(val) == replace(str(convert_listvalue(val)), "'", <<" ">>)

\* Lines 193 and 216: the name of a column, .replace("-", "_").
sql_column(key) == replace(key, "-", <<"_">>)

\* The row of the insert query: per column the text inserted.
sql_row(datadict) ==
    [k \in 1..Len(datadict) |->
       [key |-> sql_column(datadict[k].key), val |-> sql_value(datadict[k].val)]]

\* The columns of the build query (lines 209-216), in the order of the dict.
sql_columns(datadict) == [k \in 1..Len(datadict) |-> sql_column(datadict[k].key)]

\* insert_dict (lines 130-156).  The insert on a missing table fails with
\* 'no such table': the table is built from the keys and the insert is
\* run again.  On a table without one of the columns the insert fails with
\* another error, which is logged (line 156).
insert_dict(table, datadict) ==
    IF ~table.exists
    THEN [exists |-> TRUE, columns |-> sql_columns(datadict),
          rows |-> <<sql_row(datadict)>>]
    ELSE IF \A k \in 1..Len(datadict) :
              \E j \in 1..Len(table.columns) : table.columns[j] = sql_column(datadict[k].key)
    THEN [table EXCEPT !.rows = Append(@, sql_row(datadict))]
    ELSE table

\* The table insert_dict is called on does not exist.
NoNewTable ==
    [exists |-> FALSE, columns |-> <<>>, rows |-> <<>>, calls |-> 0,
     datadict |-> <<>>, rows_before |-> 0, built_from |-> <<>>]

\* c.insert_dict('newtable', datadict).
InsertDict(datadict) ==
    /\ newtable.calls < MaxInserts
    /\ LET out == insert_dict(newtable, datadict)
       IN  newtable' = [exists |-> out.exists, columns |-> out.columns,
                        rows |-> out.rows, calls |-> newtable.calls + 1,
                        datadict |-> datadict,
                        rows_before |-> Len(newtable.rows),
                        built_from |-> IF newtable.exists THEN newtable.built_from
                                       ELSE datadict]
    /\ UNCHANGED <<storevars, filtervars, instvars, schemavars>>
    /\ UNCHANGED <<db_columns, tabledict, returndict, procs>>

InitTables ==
    /\ db_columns = [built |-> FALSE, by |-> 0, raised |-> FALSE, tables |-> NoTables]
    /\ tabledict = [called |-> FALSE, by |-> 0, tablename |-> "",
                    ds |-> [e \in SchemaElements |-> NoTag],
                    raised |-> FALSE, items |-> <<>>]

InitFilter ==
    /\ exclude_filter = DefaultExclude
    /\ include_filter = DefaultInclude
    /\ roi_filter_flags = IGNORECASE
    /\ roinames = <<>>
    /\ returnlist = <<>>
    /\ configured = FALSE
    /\ setargs = [exclude |-> [kind |-> "list", v |-> DefaultExclude],
                  include |-> [kind |-> "list", v |-> DefaultInclude]]
    /\ fpc = "idle"

InitStore ==
    /\ images = <<>>
    /\ series = <<>>
    /\ studies = <<>>
    /\ patients = <<>>
    /\ prev_seriesuid = ""
    /\ prev_studyuid = ""
    /\ prev_patientid = ""
    /\ files = AllFiles
    /\ clock = 0
    /\ result = "None"
    /\ last = NoCall
    /\ run = [kind |-> "none", series |-> "", study |-> "", patient |-> ""]

\* ------------------------------------- write_tags of two instances, by steps

\* The instances: two c2 of line 777, each made for one received record.
Procs == {"c2a", "c2b"}

\* An instance before its write_tags call.
IdleProc ==
    [pc |-> "idle", ds |-> [sop |-> "", series |-> "", study |-> "", patient |-> ""],
     row_exists |-> FALSE, memo |-> ClassMemo]

\* Line 344: the patient level is entered when the identity differs from
\* the memo; otherwise write_tags returns.
enter_patient(p) ==
    IF memo_differs(p.ds.patient, p.memo.patient)
    THEN [p EXCEPT !.memo.patient = p.ds.patient, !.pc = "patient_query"]
    ELSE [p EXCEPT !.pc = "done"]

\* Lines 336-337: the study level.
enter_study(p) ==
    IF memo_differs(p.ds.study, p.memo.study)
    THEN [p EXCEPT !.memo.study = p.ds.study, !.pc = "study_query"]
    ELSE [p EXCEPT !.pc = "done"]

\* Lines 323-325: the series level.
enter_series(p) ==
    IF memo_differs(p.ds.series, p.memo.series)
    THEN [p EXCEPT !.memo.series = p.ds.series, !.pc = "series_query"]
    ELSE [p EXCEPT !.pc = "done"]

\* What follows the existence query or the insert of a level.
after_level(p) ==
    IF p.pc \in {"series_query", "series_insert"} THEN enter_study(p)
    ELSE IF p.pc \in {"study_query", "study_insert"} THEN enter_patient(p)
    ELSE [p EXCEPT !.pc = "done"]

\* c2 = pyconquest(...); c2.write_tags(ds2, filename2) is entered.
Begin(i, ds) ==
    /\ procs[i].pc = "idle"
    /\ procs' = [procs EXCEPT ![i] = [IdleProc EXCEPT !.pc = "image_query", !.ds = ds,
                                        !.memo = load_memo(NoMemo, cls_memo)]]
    /\ UNCHANGED <<storevars, filtervars, instvars, schemavars>>
    /\ UNCHANGED <<db_columns, tabledict, returndict, newtable>>

\* Line 307: the existence query on DICOMimages.
ImageQuery(i) ==
    /\ procs[i].pc = "image_query"
    /\ procs' = [procs EXCEPT
                   ![i].row_exists = check_if_table_contains(images, "SOPInstanc",
                                                             procs[i].ds.sop),
                   ![i].pc = "image_write"]
    /\ UNCHANGED <<storevars, filtervars, instvars, schemavars>>
    /\ UNCHANGED <<db_columns, tabledict, returndict, newtable>>

\* Lines 311-321: the insert, or the update of the timestamp, then the
\* comparison of line 324.
ImageWrite(i) ==
    /\ procs[i].pc = "image_write"
    /\ LET p == procs[i]
           filename == FileRef(p.ds.patient, p.ds.sop \o ".dcm")
       IN  images' = IF ~p.row_exists
                     THEN insert_row(images, imagedict(p.ds, filename, clock + 1))
                     ELSE update_timestamp(images, p.ds.sop, clock + 1)
    /\ clock' = clock + 1
    /\ procs' = [procs EXCEPT ![i] = enter_series(procs[i])]
    /\ UNCHANGED <<series, studies, patients, prev_seriesuid, prev_studyuid,
                   prev_patientid, files, result, last, run>>
    /\ UNCHANGED <<filtervars, instvars, schemavars>>
    /\ UNCHANGED <<db_columns, tabledict, returndict, newtable>>

\* Lines 326, 339, 347: the existence query of the level.  At the series
\* level a missing row sends an instance that found the image row to the
\* unbound imagedict of line 329.
ExistenceQuery(i) ==
    /\ procs[i].pc \in {"series_query", "study_query", "patient_query"}
    /\ LET p == procs[i]
           found == IF p.pc = "series_query"
                    THEN check_if_table_contains(series, "SeriesInst", p.ds.series)
                    ELSE IF p.pc = "study_query"
                    THEN check_if_table_contains(studies, "StudyInsta", p.ds.study)
                    ELSE check_if_table_contains(patients, "PatientID", p.ds.patient)
       IN  procs' = [procs EXCEPT ![i] =
                       IF found THEN after_level(p)
                       ELSE IF p.pc = "series_query"
                       THEN [p EXCEPT !.pc = IF p.row_exists THEN "raised"
                                             ELSE "series_insert"]
                       ELSE IF p.pc = "study_query"
                       THEN [p EXCEPT !.pc = "study_insert"]
                       ELSE [p EXCEPT !.pc = "patient_insert"]]
    /\ UNCHANGED <<storevars, filtervars, instvars, schemavars>>
    /\ UNCHANGED <<db_columns, tabledict, returndict, newtable>>

\* Lines 333, 341, 349: the insert of the level, committed by
\* execute_db_query.
InsertRow(i) ==
    /\ procs[i].pc \in {"series_insert", "study_insert", "patient_insert"}
    /\ LET p == procs[i]
       IN  /\ series' = IF p.pc = "series_insert"
                        THEN insert_row(series, seriesdict(p.ds)) ELSE series
           /\ studies' = IF p.pc = "study_insert"
                         THEN insert_row(studies, studydict(p.ds)) ELSE studies
           /\ patients' = IF p.pc = "patient_insert"
                          THEN insert_row(patients, patientdict(p.ds)) ELSE patients
           /\ procs' = [procs EXCEPT ![i] = after_level(p)]
    /\ UNCHANGED <<images, prev_seriesuid, prev_studyuid, prev_patientid, files,
                   clock, result, last, run>>
    /\ UNCHANGED <<filtervars, instvars, schemavars>>
    /\ UNCHANGED <<db_columns, tabledict, returndict, newtable>>

InitExt ==
    /\ InitTables
    /\ returndict = NoReturndict
    /\ newtable = NoNewTable
    /\ procs = [i \in Procs |-> IdleProc]

Init == InitStore /\ InitFilter /\ InitInstances /\ InitSchema /\ InitExt

Next ==
    \/ \E ds \in AllDatasets, ce \in BOOLEAN : WriteTags(ds, FileOf(ds), ce)
    \/ \E s \in DeleteUIDs, df \in BOOLEAN : DeleteSeries(s, df)
    \/ \E p \in PatientIDs, df \in BOOLEAN : DeleteSeriesMrn(p, df)

Spec == Init /\ [][Next]_vars

\* The records both instances process: one of patient p1, one of patient p2.
InstanceDatasets == { d \in Datasets : d.sop \in {"i1", "i5"} }

\* Two instances on one database: c, and c2 constructed while c is in use.
NextInstances ==
    \/ \E ds \in InstanceDatasets, ce \in BOOLEAN : WriteTags(ds, FileOf(ds), ce)
    \/ \E ds \in InstanceDatasets, ce \in BOOLEAN : WriteTagsC2(ds, FileOf(ds), ce)
    \/ \E ds \in InstanceDatasets, df \in BOOLEAN : DeleteSeries(ds.series, df)
    \/ Construct

SpecInstances == Init /\ [][NextInstances]_vars

\* The schema registry alone: the instances of one process, constructed one
\* after the other.
NextSchema ==
    /\ Len(sql_instances) < MaxInstances
    /\ \E file \in (IF sql_instances = <<>> THEN SqlFiles ELSE LaterSqlFiles) :
          ReadInifile(file)

SpecSchema == Init /\ [][NextSchema]_vars

\* One instance: its schema source, the tables built from it and the
\* extraction of rows by it.
NextTables ==
    \/ /\ sql_instances = <<>>
       /\ \E file \in TableSqlFiles : ReadInifile(file)
    \/ CreateStandardDicomTables(1)
    \/ /\ sql_instances # <<>>
       /\ \E t \in {"DICOMpatients", "DICOMseries"}, ds \in SchemaRecords :
             CreateTabledict(1, t, ds)

SpecTables == Init /\ [][NextTables]_vars

\* The identity of the records the derived attributes are extracted from.
DerivedDatasets == { d \in Datasets : d.sop = "i1" }

\* write_tags, with its default check_existing, on records of every
\* modality and content.
NextDerived ==
    \E ds \in DerivedDatasets, top \in TopLevels, rt \in DerivedParts :
       WriteTagsDerived(ds, top, rt, FileOf(ds), TRUE)

SpecDerived == Init /\ [][NextDerived]_vars

\* The records stored and received: one of each patient and one without
\* series identity.
IngestDatasets == InstanceDatasets \cup IncompleteDatasets

\* Files stored, records received from the listener, reconnects and
\* series deleted.
NextIngest ==
    \/ \E source \in {Unreadable} \cup { SourceFile(ds) : ds \in IngestDatasets } :
          StoreDicomFile(source)
    \/ \E ds \in IngestDatasets : HandleDicomStoreRequest(ds)
    \/ \E outcome \in QueryOutcomes : ConnectDb(outcome)
    \/ \E ds \in InstanceDatasets, df \in BOOLEAN : DeleteSeries(ds.series, df)

SpecIngest == Init /\ [][NextIngest]_vars

\* The records the list and query forms delete: two series of one patient
\* whose images have one file name.
ManyDatasets == { d \in Datasets : d.sop \in {"i1", "i3"} }

ManyUIDs == { d.series : d \in ManyDatasets }

\* Records written, then series deleted by list and by query.
NextDeleteMany ==
    \/ \E ds \in ManyDatasets : WriteTags(ds, FileOf(ds), TRUE)
    \/ \E uids \in SeqsUpTo(ManyUIDs, MaxUids), df \in BOOLEAN :
          DeleteSeriesList(uids, df)
    \/ \E query \in SeriesQueries, df \in BOOLEAN : DeleteSeriesQuery(query, df)

SpecDeleteMany == Init /\ [][NextDeleteMany]_vars

\* Calls of insert_dict on one table.
NextInsertDict == \E datadict \in DataDicts : InsertDict(datadict)

SpecInsertDict == Init /\ [][NextInsertDict]_vars

\* write_tags calls only, on records of any identities in any order.
NextArbitrary == \E ds \in ArbitraryDatasets : WriteTags(ds, FileOf(ds), TRUE)

SpecArbitrary == Init /\ [][NextArbitrary]_vars

\* Every write_tags call with check_existing=True, the default, and the
\* single and patient-level forms of delete_series.
NextChecked ==
    \/ \E ds \in Datasets : WriteTags(ds, FileOf(ds), TRUE)
    \/ \E s \in DeleteUIDs, df \in BOOLEAN : DeleteSeries(s, df)
    \/ \E p \in PatientIDs, df \in BOOLEAN : DeleteSeriesMrn(p, df)

SpecChecked == Init /\ [][NextChecked]_vars

\* The records the two instances receive: images of one series.
InterleavedDatasets == { d \in Datasets : d.series = "s1" }

\* Two instances, each in one write_tags call, statement by statement.
NextInterleaved ==
    \E i \in Procs :
       \/ \E ds \in InterleavedDatasets : Begin(i, ds)
       \/ ImageQuery(i)
       \/ ImageWrite(i)
       \/ ExistenceQuery(i)
       \/ InsertRow(i)

SpecInterleaved == Init /\ [][NextInterleaved]_vars

\* The name filter alone, on a store that stays as constructed.
NextFilter ==
    \/ /\ ~configured /\ fpc = "idle"
       /\ \E ex \in FilterArgs, inc \in FilterArgs, fl \in {0, IGNORECASE} :
             SetRoiFilter(ex, inc, fl)
    \/ /\ fpc = "idle"
       /\ \E names \in SeqsUpTo(RoiNames, MaxNames) : FilterRoinames(names)

SpecFilter == Init /\ [][NextFilter]_vars

\* ===================================================================== claims

Tables == <<images, series, studies, patients>>

has_row(table, col, value) == count_where(table, col, value) > 0

\* C1: from an empty store and a fresh instance, after one or more write_tags
\* calls on records of one series, study and patient identity and no other
\* call, DICOMseries, DICOMstudies and DICOMpatients each hold exactly one row
\* of that identity, whatever check_existing was and however many image rows
\* were written.
C1_OneRowPerLevel ==
    run.kind = "same" =>
        /\ count_where(series, "SeriesInst", run.series) = 1
        /\ count_where(studies, "StudyInsta", run.study) = 1
        /\ count_where(patients, "PatientID", run.patient) = 1

C1_Witness ==
    /\ run.kind = "same"
    /\ clock = 3
    /\ Len(images) = 3
    /\ \E j, k \in 1..Len(images) : images[j].SOPInstanc # images[k].SOPInstanc

\* C2: write_tags with check_existing=True on a record whose SOPInstanceUID
\* is in DICOMimages adds no image row; the rows of that SOPInstanceUID change
\* in their DatabaseTimeStamp column only and every other image row is kept.
C2_OnlyTimestampRefreshed ==
    [][ ( /\ last'.op = "write_tags"
          /\ last'.check_existing
          /\ has_row(images, "SOPInstanc", last'.sop) )
        => /\ Len(images') = Len(images)
           /\ \A k \in 1..Len(images) :
                 IF images[k].SOPInstanc = last'.sop
                 THEN images'[k] = [images[k] EXCEPT !.DatabaseTimeStamp =
                                        images'[k].DatabaseTimeStamp]
                 ELSE images'[k] = images[k] ]_vars

\* A refreshed row: it carries the time of the last call and is not the row
\* the table ends with, and a row of another image is in the table.
C2_Witness ==
    /\ last.op = "write_tags" /\ last.check_existing
    /\ Len(images) >= 2
    /\ images[1].SOPInstanc = last.sop
    /\ images[1].DatabaseTimeStamp = clock
    /\ images[2].SOPInstanc # last.sop

\* The rows of a table other than those whose column col holds value.
rows_without(table, col, value) ==
    LET Other(row) == row[col] # value
    IN  SelectSeq(table, Other)

\* The study and the patient a series identity belongs to in Datasets.
StudyOf(seriesuid) == (CHOOSE d \in Datasets : d.series = seriesuid).study

PatientOf(seriesuid) == (CHOOSE d \in Datasets : d.series = seriesuid).patient

\* C3: delete_series(S) on a series S with at least one image row deletes
\* every image row of S and the series row of S, and no image row of another
\* series and no other series row.
C3_ExactlyItsRows ==
    [][ ( /\ last'.op = "delete_series"
          /\ has_row(images, "SeriesInst", last'.series) )
        => /\ images' = rows_without(images, "SeriesInst", last'.series)
           /\ series' = rows_without(series, "SeriesInst", last'.series) ]_vars

\* C4: after delete_series(S) on a series S with at least one image row, the
\* DICOMstudies row of S's study has been removed (it was in the store and is
\* not any more) if and only if no DICOMseries row other than S referenced
\* that study, and the DICOMpatients row of S's patient has been removed if
\* and only if no DICOMstudies row of that patient remains.
C4_CascadeIffChildless ==
    [][ ( /\ last'.op = "delete_series"
          /\ has_row(images, "SeriesInst", last'.series) )
        => LET S == last'.series
               T == StudyOf(S)
               P == PatientOf(S)
               OtherRefs(row) == row.StudyInsta = T /\ row.SeriesInst # S
           IN  /\ ( has_row(studies, "StudyInsta", T)
                    /\ ~has_row(studies', "StudyInsta", T) )
                  <=> (Len(SelectSeq(series, OtherRefs)) = 0)
               /\ ( has_row(patients, "PatientID", P)
                    /\ ~has_row(patients', "PatientID", P) )
                  <=> ~has_row(studies', "PatientID", P) ]_vars

\* C5: delete_series(S) on a series identity without any row in the store
\* changes no table and no file and raises nothing; and after any
\* delete_series(S) a second delete_series(S) finds nothing to do.
C5_DeleteAbsentIsNoOp ==
    [][ last'.op = "delete_series"
        => /\ ( ~has_row(images, "SeriesInst", last'.series)
                /\ ~has_row(series, "SeriesInst", last'.series) )
              => ( Tables' = Tables /\ files' = files /\ result' = "None" )
           /\ return_list(StoreState', last'.series) = {}
           /\ delete_single(StoreState', last'.series, <<0, 0>>) = StoreState'
       ]_vars

\* A delete of a stored identity that has no row (any more), on a store that
\* holds rows of other series.
C5_Witness ==
    /\ last.op = "delete_series" /\ last.found = 0
    /\ last.series \in SeriesUIDs
    /\ ~has_row(images, "SeriesInst", last.series)
    /\ ~has_row(series, "SeriesInst", last.series)
    /\ Len(images) > 0 /\ Len(series) > 0

\* C6: delete_series(S) when DICOMseries has a row of S and DICOMimages has
\* none is a no-op: no row of any table and no file changes, nothing is raised.
C6_NoImagesNoCascade ==
    [][ ( /\ last'.op = "delete_series"
          /\ has_row(series, "SeriesInst", last'.series)
          /\ ~has_row(images, "SeriesInst", last'.series) )
        => ( Tables' = Tables /\ files' = files /\ result' = "None" ) ]_vars

C6_Witness ==
    /\ last.op = "delete_series" /\ last.delete_files
    /\ has_row(series, "SeriesInst", last.series)
    /\ ~has_row(images, "SeriesInst", last.series)
    /\ has_row(studies, "StudyInsta", StudyOf(last.series))

\* C7: delete_series(mrn=P, delete_files=True) returns the error result and
\* changes no row of any table and no file.
C7_MrnWithFilesRejected ==
    [][ ( last'.op = "delete_mrn" /\ last'.delete_files )
        => ( result' = "-1" /\ Tables' = Tables /\ files' = files ) ]_vars

C7_Witness ==
    /\ last.op = "delete_mrn" /\ last.delete_files /\ result = "-1"
    /\ has_row(images, "ImagePat", last.mrn)
    /\ has_row(patients, "PatientID", last.mrn)
    /\ \E f \in files : f[1] = last.mrn

\* C8: delete_series(mrn=P, delete_files=False) removes the rows of patient P
\* from the four tables, keeps every row of another patient, deletes no file.
C8_MrnDeletesPatientRows ==
    [][ ( last'.op = "delete_mrn" /\ ~last'.delete_files )
        => /\ images' = rows_without(images, "ImagePat", last'.mrn)
           /\ series' = rows_without(series, "SeriesPat", last'.mrn)
           /\ studies' = rows_without(studies, "PatientID", last'.mrn)
           /\ patients' = rows_without(patients, "PatientID", last'.mrn)
           /\ files' = files ]_vars

\* Rows of P were deleted and rows of another patient are still stored.
C8_Witness ==
    /\ last.op = "delete_mrn" /\ ~last.delete_files /\ result = "1"
    /\ last.found > 0
    /\ Len(images) > 0 /\ Len(series) > 0 /\ Len(studies) > 0 /\ Len(patients) > 0

\* A literal pattern is a prefix of the name, letter case ignored.
PrefixIgnoringCase(pattern, name) ==
    /\ Len(pattern) <= Len(name)
    /\ \A k \in 1..Len(pattern) : Lower(pattern[k]) = Lower(name[k])

\* C9: after set_roi_filter(exclude=[], include=[]) filter_roinames returns
\* its input list unchanged, in the same order.
C9_EmptyListsAreNoOp ==
    ( /\ configured /\ fpc # "idle"
      /\ exclude_filter = <<>> /\ include_filter = <<>> )
    => ( fpc = "filtered" /\ returnlist = roinames )

PrefixExactCase(pattern, name) ==
    /\ Len(pattern) <= Len(name)
    /\ \A k \in 1..Len(pattern) : pattern[k] = name[k]

\* C11: with flags=0, the exclude sentinel [''] and one include pattern p,
\* filter_roinames returns the input names that p prefixes with exact case,
\* in input order; with the ignore-case flag it returns those that p prefixes
\* when case is ignored.
C11_IncludeKeepsPrefixMatches ==
    ( /\ configured /\ fpc # "idle"
      /\ exclude_filter = << <<>> >> /\ Len(include_filter) = 1 )
    => LET p == include_filter[1]
           Exact(name) == PrefixExactCase(p, name)
           AnyCase(name) == PrefixIgnoringCase(p, name)
       IN  /\ fpc = "filtered"
           /\ roi_filter_flags = 0 => returnlist = SelectSeq(roinames, Exact)
           /\ roi_filter_flags = IGNORECASE
                 => returnlist = SelectSeq(roinames, AnyCase)

\* include=['PTV'], exclude=[''], flags=0 on ['PTV', 'ptv'] gives ['PTV'].
C11_Witness ==
    /\ configured /\ fpc = "filtered" /\ roi_filter_flags = 0
    /\ exclude_filter = << <<>> >>
    /\ include_filter = << <<"P", "T", "V">> >>
    /\ roinames = << <<"P", "T", "V">>, <<"p", "t", "v">> >>
    /\ returnlist = << <<"P", "T", "V">> >>

\* C12: whenever the exclude list in effect is not the single sentinel [''],
\* the list filter_roinames returns holds no name that one of the exclude
\* patterns matches at its start.
C12_NoExcludedNameInOutput ==
    ( fpc = "filtered" /\ exclude_filter # << <<>> >> )
    => \A j \in 1..Len(returnlist) : \A k \in 1..Len(exclude_filter) :
           ~match(exclude_filter[k], returnlist[j], roi_filter_flags)

\* The names the first pass (lines 861-864) leaves.
surviving ==
    IF exclude_applies(exclude_filter)
    THEN exclude_pass(exclude_filter, roinames, roi_filter_flags)
    ELSE roinames

RECURSIVE Concat(_)
Concat(seqs) == IF seqs = <<>> THEN <<>> ELSE Head(seqs) \o Concat(Tail(seqs))

Occurrences(seq, x) == Cardinality({ k \in 1..Len(seq) : seq[k] = x })

\* C13: the list filter_roinames returns is the concatenation, in include
\* pattern order, of the surviving names (in input order) each include
\* pattern matches; a name matching k include patterns is in it k times for
\* each time it is among the surviving names.
C13_OutputIsConcatenation ==
    fpc = "filtered"
    => LET sub(k) == LET Hit(name) == match(include_filter[k], name,
                                            roi_filter_flags)
                     IN  SelectSeq(surviving, Hit)
           matching(name) == { k \in 1..Len(include_filter) :
                                 match(include_filter[k], name, roi_filter_flags) }
       IN  /\ returnlist = Concat([k \in 1..Len(include_filter) |-> sub(k)])
           /\ \A j \in 1..Len(surviving) :
                 Occurrences(returnlist, surviving[j])
                   = Occurrences(surviving, surviving[j])
                       * Cardinality(matching(surviving[j]))

\* include=['', 'PTV'] on ['PTV', 'lung'] gives ['PTV', 'lung', 'PTV'].
C13_Witness ==
    /\ fpc = "filtered"
    /\ include_filter = << <<>>, <<"P", "T", "V">> >>
    /\ roinames = << <<"P", "T", "V">>, <<"l", "u", "n", "g">> >>
    /\ returnlist = << <<"P", "T", "V">>, <<"l", "u", "n", "g">>, <<"P", "T", "V">> >>

\* The list form of a set_roi_filter argument: p becomes [p].
listform(arg) == [kind |-> "list", v |-> IF arg.kind = "str" THEN <<arg.v>> ELSE arg.v]

\* C14: filtering after set_roi_filter was given a single string p for
\* include or exclude has the outcome that filtering the same names has
\* after set_roi_filter was given [p] instead.
C14_StringIsOneElementList ==
    ( configured /\ fpc # "idle" )
    => LET out == filter_roinames(as_list(listform(setargs.exclude)),
                                  as_list(listform(setargs.include)),
                                  roi_filter_flags, roinames)
       IN  /\ (fpc = "raised") = out.raised
           /\ returnlist = out.returnlist

\* include='PTV' (a string), flags=0 on ['PTV', 'ptv'] gives ['PTV'].
C14_Witness ==
    /\ configured /\ fpc = "filtered" /\ roi_filter_flags = 0
    /\ setargs.include = [kind |-> "str", v |-> <<"P", "T", "V">>]
    /\ setargs.exclude = [kind |-> "str", v |-> <<"E", "x">>]
    /\ roinames = << <<"P", "T", "V">>, <<"p", "t", "v">> >>
    /\ returnlist = << <<"P", "T", "V">> >>

\* C15: write_tags with check_existing=False appends one row of the record's
\* SOPInstanceUID to DICOMimages whatever the table holds, keeps every row
\* that was there and does not raise: n such calls leave n more rows.
C15_AlwaysInserts ==
    [][ ( last'.op = "write_tags" /\ ~last'.check_existing )
        => /\ Len(images') = Len(images) + 1
           /\ SubSeq(images', 1, Len(images)) = images
           /\ images'[Len(images')].SOPInstanc = last'.sop
           /\ count_where(images', "SOPInstanc", last'.sop)
                = count_where(images, "SOPInstanc", last'.sop) + 1 ]_vars

\* The same record processed three times with check_existing=False: three
\* image rows of its SOPInstanceUID.
C15_Witness ==
    /\ last.op = "write_tags" /\ ~last.check_existing
    /\ run.kind = "same" /\ clock = 3
    /\ count_where(images, "SOPInstanc", last.sop) = 3

\* C16: after write_tags on a record that carries an image identity and no
\* series identity, DICOMimages holds no row of that image identity.
C16_NoChildWithoutParent ==
    [][ ( last'.op = "write_tags" /\ last'.series = NoTag )
        => ~has_row(images', "SOPInstanc", last'.sop) ]_vars

\* The last-seen series value the instance of the coming call reads.
memo_series_of(on) ==
    IF on = "c" THEN prev_seriesuid ELSE load_memo(memo2, cls_memo).series

\* C17: write_tags with check_existing=True on a record whose image identity
\* is in DICOMimages, whose series identity differs from the last-seen one of
\* the instance and is not in DICOMseries, does not raise and leaves a
\* DICOMseries row of that series identity.
C17_SeriesRowBuiltForKnownImage ==
    [][ ( /\ last'.op = "write_tags" /\ last'.check_existing
          /\ last'.series # NoTag
          /\ has_row(images, "SOPInstanc", last'.sop)
          /\ last'.series # memo_series_of(last'.on)
          /\ ~has_row(series, "SeriesInst", last'.series) )
        => ( result' = "None" /\ has_row(series', "SeriesInst", last'.series) )
      ]_vars

\* C18: write_tags on one instance leaves the last-seen values every other
\* instance reads unchanged, and a newly constructed instance reads three
\* empty values whatever the other instances have processed.
C18_MemoPerInstance ==
    [][ /\ ( last'.op = "write_tags" /\ last'.on = "c" )
           => load_memo(memo2', cls_memo') = load_memo(memo2, cls_memo)
        /\ ( last'.op = "write_tags" /\ last'.on = "c2" )
           => <<prev_seriesuid, prev_studyuid, prev_patientid>>'
                = <<prev_seriesuid, prev_studyuid, prev_patientid>>
        /\ last'.op = "construct"
           => load_memo(memo2', cls_memo') = [a \in MemoAttrs |-> ""] ]_vars

\* Both instances have processed records, of different series; c2 was
\* constructed after c had processed one.
C18_Witness ==
    /\ last.op = "write_tags" /\ last.on = "c2"
    /\ memo2.series # Unset /\ memo2.patient # Unset
    /\ prev_seriesuid # "" /\ prev_seriesuid # memo2.series
    /\ prev_patientid # memo2.patient

\* Line k of the file is a '}' line with no open '*' line before it: no '*'
\* line precedes it, or a '}' line stands between the last one and it.
StrayEnd(file, k) ==
    /\ file[k].kind = "end"
    /\ LET marks == { j \in 1..(k - 1) : file[j].kind \in {"start", "end"} }
       IN  marks = {} \/ \E j \in marks : file[j].kind = "end" /\ \A i \in marks : i <= j

\* C19: loading a schema source with a '}' line that has no open '*' line
\* before it fails, and registers what the lines before that '}' line
\* register and nothing more.
C19_StrayEndFails ==
    \A n \in 1..Len(sql_instances) :
       LET file == sql_instances[n].file
       IN  ( file # Absent /\ \E k \in 1..Len(file) : StrayEnd(file, k) )
           => /\ sql_instances[n].raised
              /\ n = 1 =>
                   LET first == CHOOSE k \in 1..Len(file) :
                                   StrayEnd(file, k) /\ \A j \in 1..(k - 1) : ~StrayEnd(file, j)
                   IN  sql_instances[1].class_design
                         = read_lines(LoopStart(EmptyDesign), SubSeq(file, 1, first - 1)).design

\* The tables some '*' line of a schema source read so far names.
tables_started ==
    { name_to_tablename[line.name] :
        line \in { l \in UNION { { sql_instances[n].file[k] :
                                     k \in 1..Len(sql_instances[n].file) } :
                                 n \in 1..Len(sql_instances) } :
                   l.kind = "start" /\ l.name \in DOMAIN name_to_tablename } }

\* C20: an instance whose schema source file does not exist holds exactly the
\* default definition of the five tables; an instance whose file exists is
\* not given the default, whether the file loads, is malformed or defines no
\* table: its registry holds tables of the files read only.
C20_DefaultIffAbsent ==
    \A n \in 1..Len(sql_instances) :
       IF sql_instances[n].file = Absent
       THEN registry(n) = DefaultDesign /\ ~sql_instances[n].raised
       ELSE /\ ~sql_instances[n].own
            /\ registry(n) # DefaultDesign
            /\ \A t \in TableNames : registry(n)[t].registered => t \in tables_started

\* The first instance read a malformed file that registered a table before
\* it failed; the second one has no file and holds the default.
C20_Witness ==
    /\ Len(sql_instances) = 2
    /\ sql_instances[1].file # Absent /\ sql_instances[1].raised
    /\ class_db_design["DICOMpatients"].registered
    /\ sql_instances[2].file = Absent
    /\ registry(2) = DefaultDesign /\ registry(1) # DefaultDesign

\* Two mappings of the list have the same column name.
HasCollision(tablelist) ==
    \E j, k \in 1..Len(tablelist) : j # k /\ tablelist[j].colname = tablelist[k].colname

\* C21: when two mappings of a level have the same column name after the
\* clipping to ten characters, loading the schema or building the tables
\* fails; tables that were built have one column per mapping.
C21_CollisionSurfaced ==
    db_columns.built
    => \A t \in TableNames :
          ( registry(db_columns.by)[t].registered
            /\ HasCollision(registry(db_columns.by)[t].rows) )
          => ( sql_instances[db_columns.by].raised \/ db_columns.raised )

\* C22: attribute extraction for a level does not raise, and for every
\* mapping of the level's table definition the result holds the mapping's
\* column name, quotes stripped, as a key, with the value of the mapped
\* attribute when the record carries it and '' when it does not.
C22_ExtractionTotal ==
    tabledict.called
    => /\ ~tabledict.raised
       /\ \A k \in 1..Len(registry(tabledict.by)[tabledict.tablename].rows) :
             LET item == registry(tabledict.by)[tabledict.tablename].rows[k]
                 want == IF tabledict.ds[item.element] = NoTag THEN ""
                         ELSE tabledict.ds[item.element]
             IN  \E j \in 1..Len(tabledict.items) :
                    /\ tabledict.items[j].key = strip_quotes(item.colname)
                    /\ tabledict.items[j].val = want

\* The last write_tags call ran the derived extraction on a structure set
\* whose regions all carry a frame of reference.
StructureSetExtracted ==
    /\ returndict.called
    /\ returndict.rt.modality = "RTSTRUCT"
    /\ returndict.rt.contours.present
    /\ \A k \in 1..Len(returndict.rt.contours.items) :
          returndict.rt.contours.items[k].for # NoTag

\* The frame-of-reference values over the regions of that structure set.
FORSet ==
    { returndict.rt.contours.items[k].for : k \in 1..Len(returndict.rt.contours.items) }

\* C23: for a structure set, the derived UniqueFOR_UID is v when the frame
\* of reference values over all regions are exactly {v}, and '' when the
\* regions carry two or more distinct values; no error is raised.
C23_UniqueFrameOfReference ==
    StructureSetExtracted
    => /\ ~returndict.dict.raised
       /\ "UniqueFOR_UID" \in returndict.dict.keys
       /\ \A v \in FORSet : FORSet = {v} => returndict.dict.UniqueFOR_UID = v
       /\ Cardinality(FORSet) >= 2 => returndict.dict.UniqueFOR_UID = ""

C23_Witness ==
    /\ StructureSetExtracted
    /\ Cardinality(FORSet) >= 2
    /\ returndict.dict.UniqueFOR_UID = ""
    /\ result = "None"

\* The last write_tags call ran the derived extraction on a plan that has
\* a fraction group sequence.
PlanExtracted ==
    /\ returndict.called
    /\ returndict.rt.modality = "RTPLAN"
    /\ returndict.rt.groups.present

\* C24: for a plan with exactly one fraction group, Nfractions and
\* ElementCount are the group's fraction count and beam count, not lists;
\* with two or more groups both are lists of the per-group values in the
\* order of the groups.
C24_ScalarOrList ==
    PlanExtracted
    => LET groups == returndict.rt.groups.items
           dict == returndict.dict
       IN  /\ {"Nfractions", "ElementCount"} \subseteq dict.keys
           /\ Len(groups) = 1
              => /\ dict.Nfractions = [islist |-> FALSE, vals |-> <<groups[1].fractions>>]
                 /\ dict.ElementCount = [islist |-> FALSE, vals |-> <<groups[1].beams>>]
           /\ Len(groups) >= 2
              => /\ dict.Nfractions.islist /\ dict.ElementCount.islist
                 /\ Len(dict.Nfractions.vals) = Len(groups)
                 /\ Len(dict.ElementCount.vals) = Len(groups)
                 /\ \A k \in 1..Len(groups) :
                       /\ dict.Nfractions.vals[k] = groups[k].fractions
                       /\ dict.ElementCount.vals[k] = groups[k].beams

C24_Witness ==
    /\ PlanExtracted
    /\ Len(returndict.rt.groups.items) = 1
    /\ ~returndict.dict.Nfractions.islist
    /\ returndict.dict.Nfractions.vals = <<20>>

\* The record of the last extraction lacks the modality, or is a structure
\* set without region sequence, or a plan without fraction group sequence.
LookupFails ==
    \/ returndict.rt.modality = NoTag
    \/ returndict.rt.modality = "RTSTRUCT" /\ ~returndict.rt.contours.present
    \/ returndict.rt.modality = "RTPLAN" /\ ~returndict.rt.groups.present

\* C25: when the modality, the region sequence of a structure set or the
\* fraction group sequence of a plan is missing, the derived extraction
\* still returns a dict with at least the timestamp, and write_tags still
\* writes the image row of the record.
C25_LookupFailureDoesNotAbort ==
    ( last.op = "write_tags" /\ returndict.called /\ LookupFails )
    => /\ ~returndict.dict.raised
       /\ "DatabaseTimeStamp" \in returndict.dict.keys
       /\ result = "None"
       /\ \E k \in 1..Len(images) : images[k].SOPInstanc = last.sop

\* C26: a connect_db whose table-existence query fails on a store that has
\* its tables does not drop or recreate them: no row is lost.
C26_FailedQueryKeepsTables ==
    [][ ( last'.op = "connect_db" /\ last'.query # "ok" )
        => UNCHANGED <<images, series, studies, patients>> ]_vars

\* The rows of the record of the last call are in the four tables.
Synced ==
    /\ \E k \in 1..Len(images) : images[k].SOPInstanc = last.sop
    /\ \E k \in 1..Len(series) : series[k].SeriesInst = last.series
    /\ \E d \in AllDatasets :
          /\ d.sop = last.sop
          /\ \E k \in 1..Len(studies) : studies[k].StudyInsta = d.study
          /\ \E k \in 1..Len(patients) : patients[k].PatientID = d.patient

\* C27: handle_dicom_store_request returns the success status only when
\* the rows of the received record are in the store afterwards, and returns
\* a failure status, neither success nor an exception, when they are not.
C27_StatusTellsSync ==
    last.op = "handle_dicom_store_request"
    => /\ result = "0x0000" => Synced
       /\ ~Synced => result \notin {"0x0000", "raised"}

\* C30: store_dicom_file on a file that cannot be read raises nothing and
\* leaves the tables, the data directory and the memo as they were.
C30_UnreadableFileIsNoOp ==
    [][ ( last'.op = "store_dicom_file" /\ last'.sop = Unreadable.ds.sop )
        => /\ result' = "None"
           /\ UNCHANGED <<images, series, studies, patients, files,
                          prev_seriesuid, prev_studyuid, prev_patientid, cls_memo>> ]_vars

C30_Witness ==
    /\ last.op = "store_dicom_file"
    /\ last.sop = Unreadable.ds.sop
    /\ result = "None"
    /\ images # <<>>
    /\ prev_seriesuid # ""

\* The outcomes of calling delete_series on each identity of uids in order,
\* from the tables and the data directory of before.
RECURSIVE SequentialSingles(_, _, _)
SequentialSingles(before, uids, delete_files) ==
    IF uids = <<>>
    THEN {before}
    ELSE UNION { single_outcomes(sf, uids[Len(uids)], delete_files) :
                   sf \in SequentialSingles(before, SubSeq(uids, 1, Len(uids) - 1),
                                            delete_files) }

\* The SeriesInst values of the rows a query selects from the series table.
QueryAnswer(table, query) ==
    LET Selected(k) == table[k][query.col] = query.val
        rows == SelectSeq([k \in 1..Len(table) |-> k], Selected)
    IN  [j \in 1..Len(rows) |-> table[rows[j]].SeriesInst]

\* C28: delete_series with a list leaves the tables and the data directory
\* as calling delete_series on each identity of the list in order does, and
\* delete_series with a query leaves them as the list form does on the
\* SeriesInst values the query selects before anything is deleted.
C28_ListAndQueryAreSequences ==
    [][ /\ last'.op = "delete_series_list"
           => StoreAndFiles(StoreState, files)' \in
                SequentialSingles(StoreAndFiles(StoreState, files), last'.uids,
                                  last'.delete_files)
        /\ last'.op = "delete_series_query"
           => StoreAndFiles(StoreState, files)' \in
                SequentialSingles(StoreAndFiles(StoreState, files),
                                  QueryAnswer(series, last'.where),
                                  last'.delete_files) ]_vars

C28_Witness ==
    /\ last.op = "delete_series_list"
    /\ last.uids = <<"s2", "s1">>
    /\ Len(series) = 1
    /\ series[1].SeriesInst = "s1"
    /\ images = <<>>

\* The keys of a dict.
KeysOf(datadict) == { datadict[k].key : k \in 1..Len(datadict) }

\* C29: insert_dict on a table that does not exist creates it with one
\* column per key and inserts the row; every call with a dict of those keys
\* adds one row; the last row read back maps every key of the dict to the
\* value inserted, a list value to some text.
C29_InsertDictRoundTrip ==
    ( newtable.calls > 0 /\ KeysOf(newtable.datadict) = KeysOf(newtable.built_from) )
    => /\ newtable.exists
       /\ Len(newtable.columns) = Len(newtable.built_from)
       /\ Len(newtable.rows) = newtable.rows_before + 1
       /\ LET row == newtable.rows[Len(newtable.rows)]
          IN  \A k \in 1..Len(newtable.datadict) :
                 \E j \in 1..Len(row) :
                    /\ row[j].key = newtable.datadict[k].key
                    /\ newtable.datadict[k].val.kind = "str"
                       => row[j].val = newtable.datadict[k].val.v

\* C31: after every write_tags call that returns normally, the last-seen
\* series, study and patient values of the instance are the identities of
\* the record of the call.
C31_MemoIsLastRecord ==
    ( last.op = "write_tags" /\ last.on = "c" /\ result = "None" )
    => /\ prev_seriesuid = last.series
       /\ prev_studyuid = last.study
       /\ prev_patientid = last.patient

\* C33: in a sequence of write_tags calls on records of any identities,
\* after each call that returns the store holds a DICOMstudies row of the
\* record's study identity and a DICOMpatients row of its patient identity.
C33_StudyAndPatientRows ==
    ( last.op = "write_tags" /\ last.on = "c" /\ result = "None" )
    => /\ has_row(studies, "StudyInsta", last.study)
       /\ has_row(patients, "PatientID", last.patient)

\* No two rows of the table hold the same value in the column.
Unique(table, col) ==
    \A j, k \in 1..Len(table) : table[j][col] = table[k][col] => j = k

\* C34: in a sequence of write_tags calls on one instance, with records of
\* several series, studies and patients in any order, DICOMseries,
\* DICOMstudies and DICOMpatients never hold two rows of one identity.
C34_NoDuplicateHierarchyRows ==
    /\ Unique(series, "SeriesInst")
    /\ Unique(studies, "StudyInsta")
    /\ Unique(patients, "PatientID")

C34_Witness ==
    /\ last.op = "write_tags"
    /\ clock = 3
    /\ Len(series) = 2
    /\ Len(studies) = 2
    /\ Len(patients) = 2
    /\ last.series = series[1].SeriesInst
    /\ last.study = studies[1].StudyInsta
    /\ last.patient = patients[1].PatientID
    /\ result = "None"

\* C32: with records of a well-formed hierarchy, after each write_tags call
\* in a sequence of write_tags and delete_series calls on one instance the
\* store holds the DICOMseries, DICOMstudies and DICOMpatients rows of the
\* identities of the record of the call.
C32_HierarchyRowsAfterWrite ==
    ( /\ last.op = "write_tags" /\ last.on = "c" /\ result = "None"
      /\ \E d \in Datasets : d.sop = last.sop )
    => /\ has_row(series, "SeriesInst", last.series)
       /\ has_row(studies, "StudyInsta", last.study)
       /\ has_row(patients, "PatientID", last.patient)

\* C35: when every write_tags call is made with check_existing=True, after
\* any sequence of write_tags and delete_series calls DICOMimages holds no
\* two rows of one SOPInstanceUID.
C35_NoDuplicateImageRows == Unique(images, "SOPInstanc")

C35_Witness ==
    /\ last.op = "write_tags"
    /\ last.check_existing
    /\ clock = 3
    /\ Len(images) = 2
    /\ images[1].SOPInstanc = last.sop
    /\ images[1].DatabaseTimeStamp = 3

\* C36: a received record is written by a second instance whose memo is
\* empty: when handle_dicom_store_request has returned, the store holds the
\* image, series, study and patient rows of the record, whatever the memo
\* of the instance called holds and whatever was deleted before, and that
\* memo is as it was.
C36_TransientInstanceSyncs ==
    [][ last'.op = "handle_dicom_store_request"
        => /\ UNCHANGED <<prev_seriesuid, prev_studyuid, prev_patientid>>
           /\ result' = "0x0000"
              => /\ has_row(images', "SOPInstanc", last'.sop)
                 /\ has_row(series', "SeriesInst", last'.series)
                 /\ has_row(studies', "StudyInsta", last'.study)
                 /\ has_row(patients', "PatientID", last'.patient) ]_vars

C36_Witness ==
    /\ last.op = "handle_dicom_store_request"
    /\ result = "0x0000"
    /\ prev_seriesuid = last.series
    /\ Len(images) = 1
    /\ images[1].ObjectFile = FileRef(last.patient, last.sop \o ".dcm")
    /\ has_row(series, "SeriesInst", last.series)
    /\ has_row(studies, "StudyInsta", last.study)
    /\ has_row(patients, "PatientID", last.patient)

\* Both instances have returned from write_tags, on records of one series.
BothDone ==
    /\ \A i \in Procs : procs[i].pc = "done"
    /\ \A i, j \in Procs : procs[i].ds.series = procs[j].ds.series

\* C37: when two instances on one database run write_tags on records of
\* one series that is not stored yet, their queries and inserts interleaved,
\* DICOMseries, DICOMstudies and DICOMpatients end with exactly one row of
\* the series, study and patient identity.
C37_OneRowUnderInterleaving ==
    BothDone
    => \A i \in Procs :
          /\ count_where(series, "SeriesInst", procs[i].ds.series) = 1
          /\ count_where(studies, "StudyInsta", procs[i].ds.study) = 1
          /\ count_where(patients, "PatientID", procs[i].ds.patient) = 1

\* The last step was a write_tags call that returned, inserted the image
\* row of a structure set (the derived extraction ran) and inserted a
\* DICOMseries row.
SeriesRowOfStructureSet ==
    /\ last'.op = "write_tags" /\ result' = "None"
    /\ StructureSetExtracted'
    /\ Len(images') = Len(images) + 1
    /\ Len(series') = Len(series) + 1

\* C38: when write_tags inserts a DICOMseries row in the call in which it
\* inserted the image row of a structure set, the row's FrameOfRef is the
\* derived UniqueFOR_UID (the one frame of reference of the regions, ''
\* when they carry several) and, when the referenced series was resolved,
\* its Referenced is that series; the study and patient rows written hold
\* the identities of the record only.
C38_DerivedValuesOnSeriesRow ==
    [][ SeriesRowOfStructureSet
        => LET row == series'[Len(series')]
           IN  /\ row.SeriesInst = last'.series
               /\ \A v \in FORSet' : FORSet' = {v} => row.FrameOfRef = v
               /\ Cardinality(FORSet') >= 2 => row.FrameOfRef = ""
               /\ returndict'.rt.referenced # NoTag
                  => row.Referenced = returndict'.rt.referenced
               /\ Len(studies') > Len(studies)
                  => studies'[Len(studies')] =
                       [StudyInsta |-> last'.study, PatientID |-> last'.patient]
               /\ Len(patients') > Len(patients)
                  => patients'[Len(patients')] = [PatientID |-> last'.patient]
      ]_vars

\* The first row of DICOMimages is the one of the last call, a structure
\* set with regions of two frames of reference and a resolved referenced
\* series; the series row written with it has an empty FrameOfRef.
C38_Witness ==
    /\ last.op = "write_tags" /\ result = "None"
    /\ StructureSetExtracted
    /\ Cardinality(FORSet) >= 2
    /\ returndict.rt.referenced = "s1"
    /\ Len(images) = 1 /\ Len(series) = 1
    /\ series[1].SeriesInst = last.series
    /\ series[1].FrameOfRef = ""
    /\ series[1].Referenced = "s1"

\* Lines j..k of the file are a level block: a '*' line of a known level,
\* a '}' line, neither kind between them, and no later '*' line of the
\* same level.
LevelBlock(file, j, k) ==
    /\ j < k
    /\ file[j].kind = "start" /\ file[j].name \in DOMAIN name_to_tablename
    /\ file[k].kind = "end"
    /\ \A m \in (j + 1)..(k - 1) : file[m].kind \notin {"start", "end"}
    /\ \A m \in (k + 1)..Len(file) :
          ~(file[m].kind = "start" /\ file[m].name = file[j].name)

\* The third field of an attribute line without its quotes and spaces,
\* clipped to ten characters.
ClippedName(colname) ==
    LET NoQuoteNoSpace(ch) == ch \notin {"\"", " "}
        bare == SelectSeq(colname, NoQuoteNoSpace)
    IN  [n \in 1..(IF Len(bare) > 10 THEN 10 ELSE Len(bare)) |-> bare[n]]

\* The mappings the attribute lines among lines j..k stand for, in order.
RECURSIVE MappingsOf(_, _, _)
MappingsOf(file, j, k) ==
    IF j > k THEN <<>>
    ELSE IF file[j].kind = "column"
    THEN <<[group |-> "0x0010", element |-> "0x0020",
            colname |-> ClippedName(file[j].colname)]>> \o MappingsOf(file, j + 1, k)
    ELSE MappingsOf(file, j + 1, k)

\* Attribute lines follow the '}' line k before the next '*' line.
ColumnsAfterEnd(file, k) ==
    \E m \in (k + 1)..Len(file) :
       /\ file[m].kind = "column"
       /\ \A i \in (k + 1)..(m - 1) : file[i].kind # "start"

\* C39: the registry holds, for a level block of a schema source that
\* loaded, one mapping per attribute line of the block, in order, made of
\* the line's first three fields with the column name stripped of quotes
\* and spaces and clipped to ten characters; fields after the third and
\* comment lines add nothing.
C39_OneMappingPerAttributeLine ==
    ( sql_instances # <<>> /\ sql_instances[1].file # Absent
      /\ ~sql_instances[1].raised )
    => LET file == sql_instances[1].file
           design == sql_instances[1].class_design
       IN  \A j, k \in 1..Len(file) :
              LevelBlock(file, j, k)
              => LET rows == design[name_to_tablename[file[j].name]].rows
                     want == MappingsOf(file, j, k)
                 IN  /\ design[name_to_tablename[file[j].name]].registered
                     /\ Len(rows) >= Len(want)
                     /\ SubSeq(rows, 1, Len(want)) = want
                     /\ ~ColumnsAfterEnd(file, k) => rows = want

\* The first instance loaded '*Patient', the four-field line of the quoted
\* "PatientBirthDate" and '}': the table has the one mapping PatientBir.
C39_Witness ==
    /\ sql_instances # <<>>
    /\ sql_instances[1].file =
          << StartLine("Patient"),
             ColumnLine(<<"\"","P","a","t","i","e","n","t","B","i","r","t","h","D","a","t","e","\"">>, 4),
             EndLine >>
    /\ ~sql_instances[1].raised
    /\ sql_instances[1].class_design["DICOMpatients"].rows
         = << Mapping("0x0010", "0x0020", <<"P","a","t","i","e","n","t","B","i","r">>) >>

====
